---- MODULE Spec2Model ----
(***************************************************************************)
(* TBBNB controller (src/TBBNB.ino): ESP32 + SSD1306 OLED + PN532 NFC.     *)
(* The model covers the sleep/wake policy, the clock reconciliation at     *)
(* boot, the tag-driven mode machine and the two configuration channels.   *)
(*                                                                         *)
(* Conventions                                                             *)
(*  - Every C function that changes state is an operator from a state      *)
(*    record to a state record; an action applies a whole handler          *)
(*    (setup(), loop()) to the current state and commits the result.       *)
(*  - uint32_t millisecond quantities are kept modulo 2^WordBits, because  *)
(*    TLC's integers are 32-bit signed; `long` is the signed half of it.   *)
(*  - uint64_t microsecond durations are whole milliseconds in the code    *)
(*    (s * 1000000ULL, ms * 1000ULL); they are kept in milliseconds.       *)
(*  - Time zones are POSIX TZ strings; the modelled instants lie outside   *)
(*    daylight-saving time, so a zone is its standard UTC offset.          *)
(*  - The ESP32 RTC keeps the system time across deep sleep and loses it,  *)
(*    with the RTC_DATA_ATTR variables, at a power-on reset.               *)
(***************************************************************************)
EXTENDS Integers, Sequences, FiniteSets, TLC

VARIABLES
  \* ---- RAM, re-initialised at every boot
  gNfcUp, timeValid, mode, displayAwake, lastScanMs, modeUntilMs,
  recognizedLast, codeShowAtMs, lastUidHex, lastUidLen, lastWasRecognized,
  lastGrantedHex, lastPNTry,
  \* ---- settings (RAM copy of the persisted settings)
  SET_ACTIVE_MS, SET_WELCOME_MS, SET_REJECT_MS, SET_MARQUEE_MS,
  SET_CODE_DELAY_MS, SET_SLEEP_MS, SET_DAY_FALLBACK_MS, UNLOCK_CODE,
  QUIET_EN, QUIET_START_H, QUIET_END_H, SET_TZ, allowUids,
  \* ---- RTC slow memory (survives deep sleep)
  gPlannedWakeEpoch, gLastSyncEpoch,
  \* ---- hardware
  RSTPDN,      \* level of the PN532 reset/power-down pin
  oled,        \* SSD1306 panel: "ON" / "OFF"
  wifi,        \* radio mode: "OFF" / "STA"
  autoPoll,    \* the PN532 runs InAutoPoll and will pull IRQ low on a tag
  wakeExt0,    \* EXT0 wake source: "none" or the armed level "LOW"/"HIGH"
  wakeTimer,   \* timer wake source: -1 (not armed) or the duration in ms
  rtc,         \* system time, seconds since the epoch (0 = never set)
  subMs,       \* milliseconds elapsed in the current second
  millis,      \* uptime in ms
  prefs,       \* the Preferences namespace "tbbnb" (flash)
  \* ---- environment and control
  utc,         \* the true time, what a time server answers
  pc,          \* "boot" (reset, setup() not yet run), "run", "asleep"
  wakeCause,   \* esp_sleep_get_wakeup_cause(): "TIMER", "EXT0", "UNDEFINED"
  sleepProc,   \* the procedure that suspended: "none", "night", "day"
  sleepBy,     \* who called it: "none", "loop", "sleepnow"
  lastOp,      \* the last step taken
  lastSync,    \* how the last ensureTimeSync call ended
  boot,        \* what setup() saw and did, for the boot claims
  scan,        \* what the last loop() iteration read from the tag reader
  ar,          \* the AdminResult of the last admin payload
  ret,         \* value returned by the last call of a bool function
  boots, nCmd, nScan   \* counters that bound the exploration

vars == << gNfcUp, timeValid, mode, displayAwake, lastScanMs, modeUntilMs,
  recognizedLast, codeShowAtMs, lastUidHex, lastUidLen, lastWasRecognized,
  lastGrantedHex, lastPNTry,
  SET_ACTIVE_MS, SET_WELCOME_MS, SET_REJECT_MS, SET_MARQUEE_MS,
  SET_CODE_DELAY_MS, SET_SLEEP_MS, SET_DAY_FALLBACK_MS, UNLOCK_CODE,
  QUIET_EN, QUIET_START_H, QUIET_END_H, SET_TZ, allowUids,
  gPlannedWakeEpoch, gLastSyncEpoch,
  RSTPDN, oled, wifi, autoPoll, wakeExt0, wakeTimer, rtc, subMs, millis, prefs,
  utc, pc, wakeCause, sleepProc, sleepBy, lastOp, lastSync, boot, scan, ar, ret,
  boots, nCmd, nScan >>

-----------------------------------------------------------------------------
(* Bounds of the exploration *)

WordBits == 20      \* bits of the model's uint32_t / long
MaxBoots == 2       \* setup() runs at most this often
MaxCmds == 1        \* serial lines handled in a run
MaxScans == 1       \* successful tag reads in a run
MaxScansUI == 2     \* the same, in the runs of SpecUI
MaxUptime == 33     \* loop() iterations start in the first MaxUptime s of uptime
MaxUptimeLater == 3 \* the same, in the boots after the first
EventEvery == 4     \* lines and tags arrive in every EventEvery-th second of uptime

-----------------------------------------------------------------------------
(* Machine arithmetic *)

UINT32_MOD == 2 ^ WordBits
LONG_MAX == 2 ^ (WordBits - 1) - 1
LONG_MIN == 0 - 2 ^ (WordBits - 1)

U32(x) == x % UINT32_MOD                 \* (uint32_t)x, (unsigned long)x
U16(x) == x % 65536                      \* (uint16_t)x
U8(x) == x % 256                         \* (uint8_t)x
Max(a, b) == IF a >= b THEN a ELSE b
\* the lower bound is not applied
constrain_NoFloor(x, lo, hi) == IF x > hi THEN hi ELSE x
constrain(x, lo, hi) == IF x < lo THEN lo ELSE IF x > hi THEN hi ELSE x

\* Decimal texts the runs use, with the number each denotes.
Numerals == ("-1" :> -1) @@ ("0" :> 0) @@ ("1" :> 1) @@ ("7" :> 7) @@
  ("22" :> 22) @@ ("25" :> 25) @@ ("30" :> 30) @@ ("150" :> 150) @@
  ("200" :> 200) @@ ("1000" :> 1000) @@ ("2000" :> 2000) @@
  ("3000" :> 3000) @@ ("10000" :> 10000) @@ ("12000" :> 12000) @@
  ("30000" :> 30000) @@ ("70000" :> 70000) @@ ("1762862400" :> 1762862400)
\* String::toInt(): atol() of the text; text that is no number gives 0, a
\* number beyond `long` saturates.
toInt(str) ==
  IF str \in DOMAIN Numerals
    THEN constrain(Numerals[str], LONG_MIN, LONG_MAX)
    ELSE 0
\* strtoll(text, nullptr, 10): 64 bits, no saturation in the range used
strtoll(str) == IF str \in DOMAIN Numerals THEN Numerals[str] ELSE 0

-----------------------------------------------------------------------------
(* Calendar *)

DAY_S == 24 * 3600
Y2017 == 1483228800   \* 2017-01-01T00:00:00Z: getLocalTime() wants tm_year > 116
D0 == 20403 * DAY_S   \* 2025-11-11T00:00:00Z, the day the runs start in

\* Standard offset (seconds east of UTC) of the POSIX TZ strings in use.
TzOffset(tz) ==
  CASE tz = "UTC0" -> 0
    [] tz = "EST5EDT,M3.2.0/2,M11.1.0/2" -> 0 - 5 * 3600
    [] tz = "EST5EDT,M3,2.0/2,M11.1.0/2" -> 0 - 5 * 3600
    [] OTHER -> 0

\* localtime_r(): seconds since the epoch on the local wall clock
LocalSeconds(s, t) == t + TzOffset(s.SET_TZ)
\* getLocalTime(&tm): fails until the system time is past 2016
getLocalTime(s) == LocalSeconds(s, s.rtc) >= Y2017
tm_hour(s) == (LocalSeconds(s, s.rtc) % DAY_S) \div 3600

\* delay()/busy-wait: the uptime, the system time and the true time advance
Elapse(s, ms) ==
  LET sub == s.subMs + ms IN
  [s EXCEPT !.millis = U32(s.millis + ms),
            !.subMs = sub % 1000,
            !.rtc = s.rtc + sub \div 1000,
            !.utc = s.utc + sub \div 1000]

\* settimeofday(): the system time is set
settimeofday(s, epoch) == [s EXCEPT !.rtc = epoch, !.subMs = 0]   \* tv_usec = 0

-----------------------------------------------------------------------------
(* The state record the operators work on *)

St == [
  gNfcUp |-> gNfcUp, timeValid |-> timeValid, mode |-> mode,
  displayAwake |-> displayAwake, lastScanMs |-> lastScanMs,
  modeUntilMs |-> modeUntilMs, recognizedLast |-> recognizedLast,
  codeShowAtMs |-> codeShowAtMs, lastUidHex |-> lastUidHex,
  lastUidLen |-> lastUidLen, lastWasRecognized |-> lastWasRecognized,
  lastGrantedHex |-> lastGrantedHex, lastPNTry |-> lastPNTry,
  SET_ACTIVE_MS |-> SET_ACTIVE_MS, SET_WELCOME_MS |-> SET_WELCOME_MS,
  SET_REJECT_MS |-> SET_REJECT_MS, SET_MARQUEE_MS |-> SET_MARQUEE_MS,
  SET_CODE_DELAY_MS |-> SET_CODE_DELAY_MS, SET_SLEEP_MS |-> SET_SLEEP_MS,
  SET_DAY_FALLBACK_MS |-> SET_DAY_FALLBACK_MS, UNLOCK_CODE |-> UNLOCK_CODE,
  QUIET_EN |-> QUIET_EN, QUIET_START_H |-> QUIET_START_H,
  QUIET_END_H |-> QUIET_END_H, SET_TZ |-> SET_TZ, allowUids |-> allowUids,
  gPlannedWakeEpoch |-> gPlannedWakeEpoch, gLastSyncEpoch |-> gLastSyncEpoch,
  RSTPDN |-> RSTPDN, oled |-> oled, wifi |-> wifi, autoPoll |-> autoPoll,
  wakeExt0 |-> wakeExt0,
  wakeTimer |-> wakeTimer, rtc |-> rtc, subMs |-> subMs, millis |-> millis,
  prefs |-> prefs, utc |-> utc, pc |-> pc, wakeCause |-> wakeCause,
  sleepProc |-> sleepProc, sleepBy |-> sleepBy, lastOp |-> lastOp,
  lastSync |-> lastSync, boot |-> boot, scan |-> scan, ar |-> ar, ret |-> ret,
  boots |-> boots, nCmd |-> nCmd, nScan |-> nScan ]

Commit(s) ==
  /\ gNfcUp' = s.gNfcUp /\ timeValid' = s.timeValid /\ mode' = s.mode
  /\ displayAwake' = s.displayAwake /\ lastScanMs' = s.lastScanMs
  /\ modeUntilMs' = s.modeUntilMs /\ recognizedLast' = s.recognizedLast
  /\ codeShowAtMs' = s.codeShowAtMs /\ lastUidHex' = s.lastUidHex
  /\ lastUidLen' = s.lastUidLen /\ lastWasRecognized' = s.lastWasRecognized
  /\ lastGrantedHex' = s.lastGrantedHex /\ lastPNTry' = s.lastPNTry
  /\ SET_ACTIVE_MS' = s.SET_ACTIVE_MS /\ SET_WELCOME_MS' = s.SET_WELCOME_MS
  /\ SET_REJECT_MS' = s.SET_REJECT_MS /\ SET_MARQUEE_MS' = s.SET_MARQUEE_MS
  /\ SET_CODE_DELAY_MS' = s.SET_CODE_DELAY_MS /\ SET_SLEEP_MS' = s.SET_SLEEP_MS
  /\ SET_DAY_FALLBACK_MS' = s.SET_DAY_FALLBACK_MS
  /\ UNLOCK_CODE' = s.UNLOCK_CODE /\ QUIET_EN' = s.QUIET_EN
  /\ QUIET_START_H' = s.QUIET_START_H /\ QUIET_END_H' = s.QUIET_END_H
  /\ SET_TZ' = s.SET_TZ /\ allowUids' = s.allowUids
  /\ gPlannedWakeEpoch' = s.gPlannedWakeEpoch
  /\ gLastSyncEpoch' = s.gLastSyncEpoch
  /\ RSTPDN' = s.RSTPDN /\ oled' = s.oled /\ wifi' = s.wifi
  /\ autoPoll' = s.autoPoll /\ wakeExt0' = s.wakeExt0 /\ wakeTimer' = s.wakeTimer /\ rtc' = s.rtc
  /\ subMs' = s.subMs /\ millis' = s.millis /\ prefs' = s.prefs
  /\ utc' = s.utc /\ pc' = s.pc /\ wakeCause' = s.wakeCause
  /\ sleepProc' = s.sleepProc /\ sleepBy' = s.sleepBy /\ lastOp' = s.lastOp
  /\ lastSync' = s.lastSync /\ boot' = s.boot /\ scan' = s.scan
  /\ ar' = s.ar /\ ret' = s.ret /\ boots' = s.boots /\ nCmd' = s.nCmd /\ nScan' = s.nScan

\* the variables hold the fields of s
Is(s) ==
  /\ gNfcUp = s.gNfcUp /\ timeValid = s.timeValid /\ mode = s.mode
  /\ displayAwake = s.displayAwake /\ lastScanMs = s.lastScanMs
  /\ modeUntilMs = s.modeUntilMs /\ recognizedLast = s.recognizedLast
  /\ codeShowAtMs = s.codeShowAtMs /\ lastUidHex = s.lastUidHex
  /\ lastUidLen = s.lastUidLen /\ lastWasRecognized = s.lastWasRecognized
  /\ lastGrantedHex = s.lastGrantedHex /\ lastPNTry = s.lastPNTry
  /\ SET_ACTIVE_MS = s.SET_ACTIVE_MS /\ SET_WELCOME_MS = s.SET_WELCOME_MS
  /\ SET_REJECT_MS = s.SET_REJECT_MS /\ SET_MARQUEE_MS = s.SET_MARQUEE_MS
  /\ SET_CODE_DELAY_MS = s.SET_CODE_DELAY_MS /\ SET_SLEEP_MS = s.SET_SLEEP_MS
  /\ SET_DAY_FALLBACK_MS = s.SET_DAY_FALLBACK_MS
  /\ UNLOCK_CODE = s.UNLOCK_CODE /\ QUIET_EN = s.QUIET_EN
  /\ QUIET_START_H = s.QUIET_START_H /\ QUIET_END_H = s.QUIET_END_H
  /\ SET_TZ = s.SET_TZ /\ allowUids = s.allowUids
  /\ gPlannedWakeEpoch = s.gPlannedWakeEpoch
  /\ gLastSyncEpoch = s.gLastSyncEpoch
  /\ RSTPDN = s.RSTPDN /\ oled = s.oled /\ wifi = s.wifi
  /\ autoPoll = s.autoPoll /\ wakeExt0 = s.wakeExt0 /\ wakeTimer = s.wakeTimer /\ rtc = s.rtc
  /\ subMs = s.subMs /\ millis = s.millis /\ prefs = s.prefs
  /\ utc = s.utc /\ pc = s.pc /\ wakeCause = s.wakeCause
  /\ sleepProc = s.sleepProc /\ sleepBy = s.sleepBy /\ lastOp = s.lastOp
  /\ lastSync = s.lastSync /\ boot = s.boot /\ scan = s.scan
  /\ ar = s.ar /\ ret = s.ret /\ boots = s.boots /\ nCmd = s.nCmd /\ nScan = s.nScan

-----------------------------------------------------------------------------
(* Display and PN532 power *)

displayWake(s) ==
  IF ~s.displayAwake THEN [s EXCEPT !.oled = "ON", !.displayAwake = TRUE] ELSE s
displaySleep(s) ==
  IF s.displayAwake THEN [s EXCEPT !.oled = "OFF", !.displayAwake = FALSE] ELSE s

\* the reset pin is left as it is
pn532StaysUp(s) == s
pn532PowerDown(s) == [s EXCEPT !.RSTPDN = "LOW", !.gNfcUp = FALSE, !.autoPoll = FALSE]
\* the PN532 is left held in reset
pn532PowerUp_InReset(s) == [s EXCEPT !.RSTPDN = "LOW", !.gNfcUp = FALSE]
pn532PowerUp(s) == [s EXCEPT !.RSTPDN = "HIGH", !.gNfcUp = FALSE]
pn532HardReset(s) == [s EXCEPT !.RSTPDN = "HIGH", !.autoPoll = FALSE]  \* LOW 50 ms, then HIGH

disableAllWakesExceptTimer(s) == [s EXCEPT !.wakeExt0 = "none"]

\* the radio mode is left as it is
WiFiKeep(s) == s
WiFiOff(s) == [s EXCEPT !.wifi = "OFF"]             \* WiFi.mode(WIFI_OFF)

-----------------------------------------------------------------------------
(* UID text: a String of hex digits is a sequence of characters *)

HexDigits == << "0", "1", "2", "3", "4", "5", "6", "7",
                "8", "9", "A", "B", "C", "D", "E", "F" >>
UpperOf == ("a" :> "A") @@ ("b" :> "B") @@ ("c" :> "C") @@ ("d" :> "D") @@
           ("e" :> "E") @@ ("f" :> "F")
toUpperCase(str) ==
  [i \in 1..Len(str) |-> IF str[i] \in DOMAIN UpperOf THEN UpperOf[str[i]] ELSE str[i]]
NotSpace(c) == c # " "
removeSpaces(str) == SelectSeq(str, NotSpace)        \* replace(" ", "")

RECURSIVE uidHexNoSep(_)
uidHexNoSep(uid) ==
  IF uid = << >> THEN << >>
  ELSE << HexDigits[((Head(uid) \div 16) % 16) + 1], HexDigits[(Head(uid) % 16) + 1] >>
       \o uidHexNoSep(Tail(uid))

MAX_UIDS == 16

\* only the first entry is compared
inAllowlist_First(s, h) ==
  Len(s.allowUids) > 0 /\ s.allowUids[1] = toUpperCase(removeSpaces(h))

inAllowlist(s, h) ==
  LET n == toUpperCase(removeSpaces(h)) IN
  \E i \in 1..Len(s.allowUids) : s.allowUids[i] = n

\* the entry is appended whatever the count is
addAllow_NoLimit(s, hex) ==
  LET h == toUpperCase(removeSpaces(hex)) IN
  IF \E i \in 1..Len(s.allowUids) : s.allowUids[i] = h THEN [s EXCEPT !.ret = TRUE]
  ELSE [s EXCEPT !.allowUids = Append(@, h), !.ret = TRUE]

\* bool addAllow(hex): the state after the call, .ret the value returned
addAllow(s, hex) ==
  IF Len(s.allowUids) >= MAX_UIDS THEN [s EXCEPT !.ret = FALSE]
  ELSE LET h == toUpperCase(removeSpaces(hex)) IN
       IF inAllowlist(s, h) THEN [s EXCEPT !.ret = TRUE]
       ELSE [s EXCEPT !.allowUids = Append(@, h), !.ret = TRUE]

removeAllow(s, hex) ==
  LET h == toUpperCase(removeSpaces(hex))
      hits == {i \in 1..Len(s.allowUids) : s.allowUids[i] = h} IN
  IF hits = {} THEN [s EXCEPT !.ret = FALSE]
  ELSE LET i == CHOOSE k \in hits : \A j \in hits : k <= j IN
       [s EXCEPT !.allowUids = SubSeq(@, 1, i - 1) \o SubSeq(@, i + 1, Len(@)),
                 !.ret = TRUE]

clearAllow(s) == [s EXCEPT !.allowUids = << >>]

-----------------------------------------------------------------------------
(* Persistence *)

\* the namespace before it is first written: no key is present
NoPrefs == [
  saved |-> FALSE, active_ms |-> 0, welcome_ms |-> 0, reject_ms |-> 0,
  marquee_ms |-> 0, code_delay |-> 0, code |-> "", sleep_ms |-> 0,
  day_fallback_ms |-> 0, tz |-> "", quiet_en |-> FALSE, q_start |-> 0,
  q_end |-> 0, uids |-> << >> ]

\* the quiet window is left out of the write
saveAll_NoQuiet(s) ==
  [s EXCEPT !.prefs = [
     saved |-> TRUE, active_ms |-> s.SET_ACTIVE_MS, welcome_ms |-> s.SET_WELCOME_MS,
     reject_ms |-> s.SET_REJECT_MS, marquee_ms |-> s.SET_MARQUEE_MS,
     code_delay |-> s.SET_CODE_DELAY_MS, code |-> s.UNLOCK_CODE,
     sleep_ms |-> s.SET_SLEEP_MS, day_fallback_ms |-> s.SET_DAY_FALLBACK_MS,
     tz |-> s.SET_TZ, quiet_en |-> s.prefs.quiet_en, q_start |-> s.prefs.q_start,
     q_end |-> s.prefs.q_end, uids |-> s.allowUids ]]

saveAll(s) ==
  [s EXCEPT !.prefs = [
     saved |-> TRUE, active_ms |-> s.SET_ACTIVE_MS, welcome_ms |-> s.SET_WELCOME_MS,
     reject_ms |-> s.SET_REJECT_MS, marquee_ms |-> s.SET_MARQUEE_MS,
     code_delay |-> s.SET_CODE_DELAY_MS, code |-> s.UNLOCK_CODE,
     sleep_ms |-> s.SET_SLEEP_MS, day_fallback_ms |-> s.SET_DAY_FALLBACK_MS,
     tz |-> s.SET_TZ, quiet_en |-> s.QUIET_EN, q_start |-> s.QUIET_START_H,
     q_end |-> s.QUIET_END_H, uids |-> s.allowUids ]]

\* loadAll(): an absent key keeps the compiled-in value, except "tz"
loadAll(s) ==
  IF ~s.prefs.saved
    THEN [s EXCEPT !.SET_TZ = "EST5EDT,M3,2.0/2,M11.1.0/2", !.allowUids = << >>]
    ELSE LET p == s.prefs
             n == IF Len(p.uids) > MAX_UIDS THEN MAX_UIDS ELSE Len(p.uids) IN
         [s EXCEPT !.SET_ACTIVE_MS = p.active_ms, !.SET_WELCOME_MS = p.welcome_ms,
                   !.SET_REJECT_MS = p.reject_ms, !.SET_MARQUEE_MS = U16(p.marquee_ms),
                   !.SET_CODE_DELAY_MS = p.code_delay, !.UNLOCK_CODE = p.code,
                   !.SET_SLEEP_MS = p.sleep_ms,
                   !.SET_DAY_FALLBACK_MS = p.day_fallback_ms, !.SET_TZ = p.tz,
                   !.QUIET_EN = p.quiet_en, !.QUIET_START_H = p.q_start,
                   !.QUIET_END_H = p.q_end,
                   !.allowUids = [i \in 1..n |-> toUpperCase(p.uids[i])]]

-----------------------------------------------------------------------------
(* Clock source *)

\* the fallback epoch is not applied
setSystemTimeFromEpoch_None(s, epoch) == s

\* setSystemTimeFromEpoch(epoch, tag)
setSystemTimeFromEpoch(s, epoch) ==
  IF epoch <= 0 THEN s
  ELSE [settimeofday(s, epoch) EXCEPT !.timeValid = TRUE]

\* the sign of the epoch is not looked at
setClockFromEpoch_Any(s, epoch) ==
  [settimeofday(s, epoch) EXCEPT !.timeValid = TRUE, !.ret = TRUE]

\* bool setClockFromEpoch(epoch)
setClockFromEpoch(s, epoch) ==
  IF epoch <= 0 THEN [s EXCEPT !.ret = FALSE]
  ELSE [settimeofday(s, epoch) EXCEPT !.timeValid = TRUE, !.ret = TRUE]

\* What the network does during one sync attempt: the access point accepts
\* the station, the resolver answers, a time server answers.
NetOutcomes == { [wifi |-> FALSE, dns |-> FALSE, ntp |-> FALSE],
                 [wifi |-> TRUE,  dns |-> FALSE, ntp |-> FALSE],
                 [wifi |-> TRUE,  dns |-> TRUE,  ntp |-> FALSE],
                 [wifi |-> TRUE,  dns |-> TRUE,  ntp |-> TRUE] }

\* bool ensureTimeSync(wifiMs, ntpMs, force, verbose): .ret is the value
\* returned, .lastSync names the return statement taken. The time the two
\* busy-waits take (at most wifiMs + ntpMs) is not counted.
ensureTimeSync(s, wifiMs, ntpMs, force, net) ==
  IF ~force /\ ~s.QUIET_EN
    THEN [s EXCEPT !.ret = FALSE, !.lastSync = "skipped"]
  ELSE
    LET up == [s EXCEPT !.wifi = "STA"] IN
    IF ~net.wifi
      THEN [WiFiOff(up) EXCEPT !.ret = FALSE, !.lastSync = "connect"]
    ELSE IF ~net.dns
      THEN [WiFiOff(up) EXCEPT !.ret = FALSE, !.lastSync = "dns"]
    ELSE
      LET cleared == [up EXCEPT !.timeValid = FALSE] IN
      IF getLocalTime(cleared)
        THEN \* the system time already reads as set: the first poll succeeds
             [WiFiOff(cleared) EXCEPT !.timeValid = TRUE,
                                      !.gLastSyncEpoch = cleared.rtc,
                                      !.ret = TRUE, !.lastSync = "ok"]
      ELSE IF net.ntp
        THEN \* a server answers and SNTP sets the system time
             LET got == settimeofday(cleared, cleared.utc) IN
             [WiFiOff(got) EXCEPT !.timeValid = getLocalTime(got),
                                  !.gLastSyncEpoch =
                                     IF getLocalTime(got) THEN got.rtc ELSE @,
                                  !.ret = getLocalTime(got),
                                  !.lastSync = IF getLocalTime(got) THEN "ok" ELSE "timeout"]
      ELSE [WiFiOff(cleared) EXCEPT !.ret = FALSE, !.lastSync = "timeout"]

-----------------------------------------------------------------------------
(* Quiet hours *)

\* a window that does not wrap over midnight
inQuietHours_NoWrap(s) ==
  /\ s.QUIET_EN /\ getLocalTime(s)
  /\ tm_hour(s) >= s.QUIET_START_H /\ tm_hour(s) < s.QUIET_END_H

inQuietHours(s) ==
  IF ~s.QUIET_EN THEN FALSE
  ELSE IF ~getLocalTime(s) THEN FALSE
  ELSE LET h == U8(tm_hour(s)) IN
       IF s.QUIET_START_H = s.QUIET_END_H THEN TRUE
       ELSE IF s.QUIET_START_H < s.QUIET_END_H
         THEN h >= s.QUIET_START_H /\ h < s.QUIET_END_H
       ELSE h >= s.QUIET_START_H \/ h < s.QUIET_END_H

\* the window alone decides
quietNow_NoValidity(s) == s.QUIET_EN /\ inQuietHours(s)

quietNow(s) == s.QUIET_EN /\ s.timeValid /\ inQuietHours(s)

\* today's H:00:00 counts as reached only once it is past
microsUntilHour_Strict(s, H) ==
  IF ~getLocalTime(s) THEN 0
  ELSE LET tnow == s.rtc
           midnight == LocalSeconds(s, tnow) - (LocalSeconds(s, tnow) % DAY_S)
           today == midnight + H * 3600 - TzOffset(s.SET_TZ)
           tnext == IF today < tnow THEN today + DAY_S ELSE today IN
       (tnext - tnow) * 1000

\* uint64_t microsUntilHour(H), in ms: mktime() of today's H:00:00 local,
\* a day later when that is not after now.
microsUntilHour(s, H) ==
  IF ~getLocalTime(s) THEN 0
  ELSE LET tnow == s.rtc
           midnight == LocalSeconds(s, tnow) - (LocalSeconds(s, tnow) % DAY_S)
           today == midnight + H * 3600 - TzOffset(s.SET_TZ)
           tnext == IF today <= tnow THEN today + DAY_S ELSE today IN
       (tnext - tnow) * 1000

-----------------------------------------------------------------------------
(* Sleep entries *)

ONE_MIN == 60000          \* 60ULL * 1000000ULL us
THIRTY_MIN == 1800000     \* 30ULL * 60ULL * 1000000ULL us

\* esp_deep_sleep_start(): the CPU stops; the state stays as it is until
\* a wake source fires.
esp_deep_sleep_start(s, proc, by) ==
  [s EXCEPT !.pc = "asleep", !.sleepProc = proc, !.sleepBy = by]

\* the planned wake instant is never stored
enterDeepSleep_NightTimer_NoPlan(s, net, by) ==
  LET off == disableAllWakesExceptTimer(WiFiOff(pn532PowerDown(displaySleep(s))))
      t == IF ~off.timeValid THEN ensureTimeSync(off, 4000, 2500, TRUE, net) ELSE off
      toEnd == Max(microsUntilHour(t, t.QUIET_END_H), ONE_MIN)
      armed == [t EXCEPT !.gPlannedWakeEpoch = 0,
                         !.wakeTimer = IF t.timeValid THEN toEnd ELSE THIRTY_MIN]
  IN esp_deep_sleep_start(Elapse(armed, 40), "night", by)

enterDeepSleep_NightTimer(s, net, by) ==
  LET off == disableAllWakesExceptTimer(WiFiOff(pn532PowerDown(displaySleep(s))))
      t == IF ~off.timeValid THEN ensureTimeSync(off, 4000, 2500, TRUE, net) ELSE off
      nowEpoch == t.rtc
      toEnd == Max(microsUntilHour(t, t.QUIET_END_H), ONE_MIN)
      armed == IF t.timeValid
                 THEN [t EXCEPT !.gPlannedWakeEpoch = nowEpoch + toEnd \div 1000,
                                !.wakeTimer = toEnd]
                 ELSE [t EXCEPT !.gPlannedWakeEpoch = 0, !.wakeTimer = THIRTY_MIN]
  IN esp_deep_sleep_start(Elapse(armed, 40), "night", by)

\* the suspend waits for the PN532 to acknowledge InAutoPoll
enterDeepSleep_DayIRQ_NeedsAck(s, autoOK) ==
  LET up == pn532PowerUp(displaySleep(s))
      ext == [up EXCEPT !.autoPoll = autoOK, !.wakeExt0 = "LOW"]
      tim == IF ext.SET_DAY_FALLBACK_MS > 0
               THEN [ext EXCEPT !.wakeTimer = ext.SET_DAY_FALLBACK_MS]
               ELSE ext
  IN IF autoOK THEN esp_deep_sleep_start(Elapse(WiFiOff(tim), 40), "day", "loop")
     ELSE up

enterDeepSleep_DayIRQ(s, autoOK) ==
  LET up == pn532PowerUp(displaySleep(s))
      ext == [up EXCEPT !.autoPoll = autoOK, !.wakeExt0 = "LOW"]
      tim == IF ext.SET_DAY_FALLBACK_MS > 0
               THEN [ext EXCEPT !.wakeTimer = ext.SET_DAY_FALLBACK_MS]
               ELSE ext
  IN esp_deep_sleep_start(Elapse(WiFiOff(tim), 40), "day", "loop")

-----------------------------------------------------------------------------
(* Manual clock set *)

\* "YYYY-MM-DD HH:MM:SS" texts the runs use, as seconds of civil time since
\* 1970-01-01 00:00:00; sscanf() rejects any other text.
CivilTimes == ("2025-11-11 21:05:00" :> D0 + 21 * 3600 + 5 * 60) @@
              ("2025-11-11 23:10:00" :> D0 + 23 * 3600 + 10 * 60) @@
              ("1969-12-31 12:00:00" :> 0 - 12 * 3600)

\* bool setClockFromString(s): mktime() reads the civil time in the zone TZ
setClockFromString(s, str) ==
  IF str \notin DOMAIN CivilTimes THEN [s EXCEPT !.ret = FALSE]
  ELSE LET epoch == CivilTimes[str] - TzOffset(s.SET_TZ) IN
       IF epoch <= 0 THEN [s EXCEPT !.ret = FALSE]
       ELSE setClockFromEpoch(s, epoch)

\* oledToast(line1, line2, ms = 1200)
oledToast(s) == Elapse(displayWake(s), 1200)

-----------------------------------------------------------------------------
(* Admin payloads (NDEF text of key=value lines) *)

\* A payload is the sequence of its non-empty trimmed lines; a line is
\* [eq |-> whether it holds '=', k |-> text before it, v |-> text after it,
\* u |-> the characters of v when it is a UID].
HasEq(text) == \E i \in 1..Len(text) : text[i].eq

\* String::toLowerCase() on the keys the runs use
LowerOf == ("QEND" :> "qend") @@ ("Code" :> "code")
lower(k) == IF k \in DOMAIN LowerOf THEN LowerOf[k] ELSE k

applyKV(s, k0, v, u) ==
  LET k == lower(k0)
      Ok(x, msg) == [x EXCEPT !.ar.msg = msg]
      Bad(x, msg) == [x EXCEPT !.ar = [ok |-> FALSE, msg |-> msg]] IN
  CASE k = "active_ms" ->
         Ok([s EXCEPT !.SET_ACTIVE_MS = U32(Max(10000, toInt(v)))], "active_ms")
    [] k = "welcome_ms" ->
         Ok([s EXCEPT !.SET_WELCOME_MS = U32(Max(200, toInt(v)))], "welcome_ms")
    [] k = "reject_ms" ->
         Ok([s EXCEPT !.SET_REJECT_MS = U32(Max(200, toInt(v)))], "reject_ms")
    [] k = "marquee_ms" ->
         Ok([s EXCEPT !.SET_MARQUEE_MS = U16(constrain(toInt(v), 10, 65535))], "marquee_ms")
    [] k = "code_delay_ms" ->
         Ok([s EXCEPT !.SET_CODE_DELAY_MS = U32(Max(0, toInt(v)))], "code_delay_ms")
    [] k = "code" ->
         IF Len(v) = 4 THEN Ok([s EXCEPT !.UNLOCK_CODE = v], "code")
         ELSE Bad(s, "code len")
    [] k = "quiet" ->
         LET en == v \in {"1", "on", "true"} IN
         Ok([s EXCEPT !.QUIET_EN = en], IF en THEN "quiet:on" ELSE "quiet:off")
    [] k = "qstart" ->
         Ok([s EXCEPT !.QUIET_START_H = U8(constrain(toInt(v), 0, 23))], "qstart")
    [] k = "qend" ->
         Ok([s EXCEPT !.QUIET_END_H = U8(constrain(toInt(v), 0, 23))], "qend")
    [] k = "add" ->
         LET a == addAllow(s, u) IN
         IF a.ret THEN Ok(a, "add ok") ELSE Bad(a, "add fail")
    [] k = "remove" ->
         LET r == removeAllow(s, u) IN
         IF r.ret THEN Ok(r, "remove ok") ELSE Bad(r, "remove nf")
    [] k = "clear" ->
         IF v \in {"1", "true"} THEN Ok(clearAllow(s), "cleared") ELSE Bad(s, "clear?")
    [] k = "sleep_ms" ->
         Ok([s EXCEPT !.SET_SLEEP_MS = U32(Max(30000, toInt(v)))], "sleep_ms")
    [] k = "day_fallback_ms" ->
         Ok([s EXCEPT !.SET_DAY_FALLBACK_MS = U32(Max(0, toInt(v)))], "day_fallback_ms")
    [] k = "datetime" ->
         LET c == setClockFromString(s, v) IN
         IF c.ret THEN Ok(c, "datetime") ELSE Bad(c, "datetime parse")
    [] k = "epoch" ->
         LET c == setClockFromEpoch(s, strtoll(v)) IN
         IF c.ret THEN Ok(c, "epoch") ELSE Bad(c, "epoch bad")
    [] k = "tz" ->
         IF Len(v) > 2 THEN Ok([s EXCEPT !.SET_TZ = v], "tz") ELSE Bad(s, "tz invalid")
    [] OTHER -> Bad(s, "unk key: " \o k)

RECURSIVE applyLines(_, _)
applyLines(s, text) ==
  IF text = << >> THEN s
  ELSE LET line == Head(text) IN
       applyLines(IF ~line.eq THEN [s EXCEPT !.ar = [ok |-> FALSE, msg |-> "no '='"]]
                  ELSE applyKV(s, line.k, line.v, line.u),
                  Tail(text))

\* the items are applied and nothing is saved
applyConfigText_NoSave(s, text) ==
  applyLines([s EXCEPT !.ar = [ok |-> TRUE, msg |-> "saved"]], text)

\* AdminResult applyConfigText(txt): the result is left in .ar
applyConfigText(s, text) ==
  saveAll(applyLines([s EXCEPT !.ar = [ok |-> TRUE, msg |-> "saved"]], text))

showAdminFeedback(s) == Elapse(displayWake(s), 1200)

-----------------------------------------------------------------------------
(* Serial commands *)

\* A line is [verb |-> its first word, args |-> the words after it,
\* uid |-> the UID text after add/remove, a sequence of characters].
NoCmd == [verb |-> "", args |-> << >>, uid |-> << >>]

handleSerial(s, cmd, net) ==
  LET v == cmd.verb
      a == cmd.args
      a1 == IF Len(a) >= 1 THEN a[1] ELSE "" IN
  CASE v = "add" -> saveAll(addAllow(s, removeSpaces(toUpperCase(cmd.uid))))
    [] v = "remove" -> saveAll(removeAllow(s, removeSpaces(toUpperCase(cmd.uid))))
    [] v = "clear" /\ a = << >> -> saveAll(clearAllow(s))
    [] v = "checknow" /\ a = << >> ->
         LET c == s.wakeCause
             y == ensureTimeSync(s, 10000, 10000, TRUE, net) IN
         IF ~y.ret /\ c = "TIMER" /\ y.gPlannedWakeEpoch > 0
           THEN setSystemTimeFromEpoch(y, y.gPlannedWakeEpoch)
           ELSE y
    [] v = "active_ms" /\ Len(a) >= 1 ->
         saveAll([s EXCEPT !.SET_ACTIVE_MS = Max(U32(toInt(a1)), 10000)])
    [] v = "welcome_ms" /\ Len(a) >= 1 ->
         saveAll([s EXCEPT !.SET_WELCOME_MS = Max(U32(toInt(a1)), 200)])
    [] v = "reject_ms" /\ Len(a) >= 1 ->
         saveAll([s EXCEPT !.SET_REJECT_MS = Max(U32(toInt(a1)), 200)])
    [] v = "marquee_ms" /\ Len(a) >= 1 ->
         saveAll([s EXCEPT !.SET_MARQUEE_MS = U16(constrain(toInt(a1), 10, 65535))])
    [] v = "code_delay_ms" /\ Len(a) >= 1 ->
         saveAll([s EXCEPT !.SET_CODE_DELAY_MS = U32(Max(toInt(a1), 0))])
    [] v = "unlock" /\ Len(a) >= 1 ->
         IF Len(a1) = 4 /\ Len(a) = 1 THEN saveAll([s EXCEPT !.UNLOCK_CODE = a1]) ELSE s
    [] v = "quiet" /\ Len(a) >= 1 ->
         IF a = << "on" >> THEN saveAll([s EXCEPT !.QUIET_EN = TRUE])
         ELSE IF a = << "off" >> THEN saveAll([s EXCEPT !.QUIET_EN = FALSE])
         ELSE IF a[1] = "on" /\ Len(a) >= 3
           THEN saveAll([s EXCEPT !.QUIET_EN = TRUE,
                                  !.QUIET_START_H = U8(toInt(a[2])),
                                  !.QUIET_END_H = U8(toInt(a[3]))])
         ELSE s
    [] v = "settime" /\ Len(a) >= 1 -> oledToast(setClockFromString(s, a1))
    [] v = "setepoch" /\ Len(a) >= 1 -> oledToast(setClockFromEpoch(s, strtoll(a1)))
    [] v = "settz" /\ Len(a) = 1 ->
         oledToast(saveAll([s EXCEPT !.SET_TZ = a1]))
    [] v = "ntp" /\ a = << >> -> ensureTimeSync(s, 10000, 10000, FALSE, net)
    [] v = "sleepnow" /\ a = << >> -> enterDeepSleep_NightTimer(s, net, "sleepnow")
    [] v = "pnreset" /\ a = << >> -> pn532HardReset(s)
    [] v = "addlast" /\ a = << >> ->
         IF s.lastUidLen > 0
           THEN LET x == addAllow(s, s.lastUidHex) IN IF x.ret THEN saveAll(x) ELSE x
           ELSE s
    [] OTHER -> s     \* help, show, list, time, date, tz, last, lastgranted,
                      \* sleepdiag, irq, i2cscan, pninfo, and "unknown"

-----------------------------------------------------------------------------
(* loop() *)

\* What the reader returns in one poll: NoTag, or the UID bytes of the tag
\* in the field and the lines of its NDEF text record (<< >>: none).
NoTag == [uid |-> << >>, text |-> << >>, present |-> FALSE]

\* a UID that is not on the list is welcomed first and rejected later
recognize_WelcomeFirst(s, uid) ==
  IF Len(uid) >= 4
    THEN LET hex == uidHexNoSep(uid)
             rec == IF Len(s.allowUids) > 0 THEN inAllowlist(s, hex) ELSE TRUE IN
         [s EXCEPT !.recognizedLast = rec, !.lastWasRecognized = rec,
                   !.lastGrantedHex = IF rec THEN hex ELSE @,
                   !.mode = "MODE_WELCOME",
                   !.modeUntilMs = U32(s.millis + s.SET_WELCOME_MS),
                   !.codeShowAtMs =
                      U32(U32(s.millis + s.SET_WELCOME_MS) + s.SET_CODE_DELAY_MS)]
    ELSE [s EXCEPT !.recognizedLast = FALSE, !.mode = "MODE_POOP",
                   !.modeUntilMs = U32(s.millis + s.SET_REJECT_MS)]

\* a UID of 4 bytes or more is welcomed whatever the allowlist holds
recognize_AllowAll(s, uid) ==
  IF Len(uid) >= 4
    THEN [s EXCEPT !.recognizedLast = TRUE, !.lastWasRecognized = TRUE,
                   !.lastGrantedHex = uidHexNoSep(uid), !.mode = "MODE_WELCOME",
                   !.modeUntilMs = U32(s.millis + s.SET_WELCOME_MS),
                   !.codeShowAtMs =
                      U32(U32(s.millis + s.SET_WELCOME_MS) + s.SET_CODE_DELAY_MS)]
    ELSE [s EXCEPT !.recognizedLast = FALSE, !.mode = "MODE_POOP",
                   !.modeUntilMs = U32(s.millis + s.SET_REJECT_MS)]

\* lines 1099-1122: recognition handling of a scan that was no admin scan
recognize(s, uid) ==
  IF Len(uid) >= 4
    THEN LET hex == uidHexNoSep(uid)
             rec == IF Len(s.allowUids) > 0 THEN inAllowlist(s, hex) ELSE TRUE IN
         IF rec
           THEN [s EXCEPT !.recognizedLast = TRUE, !.lastWasRecognized = TRUE,
                          !.lastGrantedHex = hex, !.mode = "MODE_WELCOME",
                          !.modeUntilMs = U32(s.millis + s.SET_WELCOME_MS),
                          !.codeShowAtMs =
                             U32(U32(s.millis + s.SET_WELCOME_MS) + s.SET_CODE_DELAY_MS)]
           ELSE [s EXCEPT !.recognizedLast = FALSE, !.lastWasRecognized = FALSE,
                          !.mode = "MODE_POOP",
                          !.modeUntilMs = U32(s.millis + s.SET_REJECT_MS)]
    ELSE [s EXCEPT !.recognizedLast = FALSE, !.mode = "MODE_POOP",
                   !.modeUntilMs = U32(s.millis + s.SET_REJECT_MS)]

\* an admin tag does not count as a scan
pollTag_AdminNoScan(s, tag) ==
  IF s.gNfcUp /\ s.RSTPDN = "HIGH" /\ U32(s.millis - s.lastPNTry) >= 120
    THEN LET p == [s EXCEPT !.lastPNTry = s.millis] IN
         IF tag.present
           THEN LET r == [displayWake([p EXCEPT !.lastScanMs = p.millis])
                            EXCEPT !.lastUidLen = Len(tag.uid),
                                   !.lastUidHex = uidHexNoSep(tag.uid),
                                   !.scan = tag, !.nScan = @ + 1] IN
                IF HasEq(tag.text)
                  THEN showAdminFeedback(applyConfigText([r EXCEPT !.lastScanMs = s.lastScanMs], tag.text))
                  ELSE recognize(r, tag.uid)
           ELSE p
    ELSE s

\* lines 1072-1126: the throttled tag poll
pollTag(s, tag) ==
  IF s.gNfcUp /\ s.RSTPDN = "HIGH" /\ U32(s.millis - s.lastPNTry) >= 120
    THEN LET p == [s EXCEPT !.lastPNTry = s.millis] IN
         IF tag.present
           THEN LET r == [displayWake([p EXCEPT !.lastScanMs = p.millis])
                            EXCEPT !.lastUidLen = Len(tag.uid),
                                   !.lastUidHex = uidHexNoSep(tag.uid),
                                   !.scan = tag, !.nScan = @ + 1] IN
                IF HasEq(tag.text)
                  THEN showAdminFeedback(applyConfigText(r, tag.text))
                  ELSE recognize(r, tag.uid)
           ELSE p
    ELSE s

\* the code is never shown
showCode_Never(s) == s

\* lines 1128-1135
showCode(s) ==
  IF s.mode = "MODE_WELCOME" /\ s.recognizedLast /\ s.millis >= s.codeShowAtMs
    THEN LET holdMs == IF s.SET_WELCOME_MS > 1500 THEN s.SET_WELCOME_MS ELSE 1500 IN
         [s EXCEPT !.mode = "MODE_CODE", !.modeUntilMs = U32(s.millis + holdMs)]
    ELSE s

\* the display is never blanked
idleBlank_Never(s) == s

\* lines 1137-1140
idleBlank(s) ==
  IF s.mode # "MODE_SLEEP" /\ U32(s.millis - s.lastScanMs) > s.SET_ACTIVE_MS
    THEN displaySleep([s EXCEPT !.mode = "MODE_SLEEP"])
    ELSE s

\* no mode expires
modeTimeout_Never(s) == s

\* lines 1142-1146
modeTimeout(s) ==
  IF (s.mode = "MODE_CODE" \/ s.mode = "MODE_POOP"
        \/ (s.mode = "MODE_WELCOME" /\ ~s.recognizedLast))
     /\ s.millis > s.modeUntilMs
    THEN [s EXCEPT !.mode = "MODE_SIGN"]
    ELSE s

\* daytime sleep waits for valid time
daySleep_NeedsTime(s, autoOK) ==
  IF s.timeValid /\ ~quietNow(s) /\ U32(s.millis - s.lastScanMs) > s.SET_SLEEP_MS
    THEN enterDeepSleep_DayIRQ(s, autoOK)
    ELSE s

\* daytime sleep without the idle test
daySleep_NoIdle(s, autoOK) ==
  IF ~quietNow(s) THEN enterDeepSleep_DayIRQ(s, autoOK) ELSE s

\* lines 1147-1150
daySleep(s, autoOK) ==
  IF ~quietNow(s) /\ U32(s.millis - s.lastScanMs) > s.SET_SLEEP_MS
    THEN enterDeepSleep_DayIRQ(s, autoOK)
    ELSE s

\* loop() that waits for the idle time before it sleeps for the night
loop_NightWhenIdle(s, cmd, tag, net, autoOK) ==
  LET c == IF cmd = NoCmd THEN s
           ELSE [handleSerial(s, cmd, net) EXCEPT !.nCmd = @ + 1] IN
  IF c.pc = "asleep" THEN c
  ELSE IF quietNow(c) /\ U32(c.millis - c.lastScanMs) > c.SET_SLEEP_MS
    THEN enterDeepSleep_NightTimer(c, net, "loop")
  ELSE daySleep(modeTimeout(idleBlank(showCode(pollTag(c, tag)))), autoOK)

\* One iteration of loop(); a suspend ends it where it is called.
loop(s, cmd, tag, net, autoOK) ==
  LET c == IF cmd = NoCmd THEN s
           ELSE [handleSerial(s, cmd, net) EXCEPT !.nCmd = @ + 1] IN
  IF c.pc = "asleep" THEN c
  ELSE IF quietNow(c) THEN enterDeepSleep_NightTimer(c, net, "loop")
  ELSE daySleep(modeTimeout(idleBlank(showCode(pollTag(c, tag)))), autoOK)

-----------------------------------------------------------------------------
(* Reset and setup() *)

NoBoot == [cause |-> "UNDEFINED", planned |-> 0, last |-> 0,
           first |-> "none", forced |-> "none", rung |-> "none"]

\* A reset of the CPU: RAM takes its compiled-in values, the wake sources
\* are disarmed, the radio is off. The pins, the panel, the RTC memory, the
\* system time and the flash are not touched.
Reset(s, cause) ==
  [s EXCEPT
     !.gNfcUp = FALSE, !.timeValid = FALSE, !.mode = "MODE_SIGN",
     !.displayAwake = FALSE, !.lastScanMs = 0, !.modeUntilMs = 0,
     !.recognizedLast = FALSE, !.codeShowAtMs = 0, !.lastUidHex = << >>,
     !.lastUidLen = 0, !.lastWasRecognized = FALSE, !.lastGrantedHex = << >>,
     !.lastPNTry = 0,
     !.SET_ACTIVE_MS = 120000, !.SET_WELCOME_MS = 3000, !.SET_REJECT_MS = 3000,
     !.SET_MARQUEE_MS = 35, !.SET_CODE_DELAY_MS = 1500, !.SET_SLEEP_MS = 180000,
     !.SET_DAY_FALLBACK_MS = 0, !.UNLOCK_CODE = "3510", !.QUIET_EN = TRUE,
     !.QUIET_START_H = 22, !.QUIET_END_H = 7,
     !.SET_TZ = "EST5EDT,M3.2.0/2,M11.1.0/2", !.allowUids = << >>,
     !.wifi = "OFF", !.wakeExt0 = "none", !.wakeTimer = -1, !.millis = 0,
     !.pc = "boot", !.wakeCause = cause, !.sleepProc = "none",
     !.sleepBy = "none", !.lastSync = "none", !.boot = NoBoot,
     !.scan = NoTag, !.ar = [ok |-> FALSE, msg |-> ""], !.ret = FALSE]

\* setup(): nfcOk is whether the PN532 answers getFirmwareVersion(); first
\* and forced are what the network does in the two sync attempts.
setup(s, nfcOk, first, forced) ==
  LET hw == [WiFiOff(s) EXCEPT !.RSTPDN = "HIGH", !.oled = "OFF", !.displayAwake = FALSE]
      ld == loadAll(hw)
      nf == [pn532HardReset(ld) EXCEPT !.gNfcUp = nfcOk]
      q == IF nf.QUIET_EN THEN ensureTimeSync(nf, 6000, 6000, FALSE, first) ELSE nf
      cause == q.wakeCause
      f == ensureTimeSync(q, 10000, 10000, TRUE, forced)
      synced == f.ret
      usePlanned == ~synced /\ cause = "TIMER" /\ f.gPlannedWakeEpoch > 0
      p == IF usePlanned THEN setSystemTimeFromEpoch(f, f.gPlannedWakeEpoch) ELSE f
      useLast == ~p.timeValid /\ p.gLastSyncEpoch > 0
      l == IF useLast THEN setSystemTimeFromEpoch(p, p.gLastSyncEpoch) ELSE p
  IN [displayWake(l) EXCEPT
        !.mode = "MODE_SIGN", !.lastScanMs = l.millis, !.pc = "run",
        !.boot = [cause |-> cause, planned |-> s.gPlannedWakeEpoch,
                  last |-> s.gLastSyncEpoch,
                  first |-> IF nf.QUIET_EN THEN q.lastSync ELSE "none",
                  forced |-> f.lastSync,
                  rung |-> IF useLast THEN "last" ELSE IF usePlanned THEN "planned"
                           ELSE "none"]]

-----------------------------------------------------------------------------
(* Inputs of the runs *)

EST == "EST5EDT,M3.2.0/2,M11.1.0/2"
\* 2025-11-11 h:m:s, Eastern Standard Time
At(h, m, sec) == D0 + 5 * 3600 + h * 3600 + m * 60 + sec

StartInstants == { At(21, 59, 58), At(6, 59, 57), At(23, 9, 59) }

UidA == << 4, 170, 187, 204 >>          \* 04AABBCC
UidB == << 4, 221, 238, 255, 17 >>      \* 04DDEEFF11
UidShort == << 1, 2 >>
HexA == << "0", "4", "A", "A", "B", "B", "C", "C" >>
TextA == << "0", "4", " ", "a", "a", " ", "b", "b", "c", "c" >>
TextB == << "0", "4", "d", "d", "e", "e", "f", "f", "1", "1" >>

KV(k, v) == [eq |-> TRUE, k |-> k, v |-> v, u |-> << >>]
KU(k, u) == [eq |-> TRUE, k |-> k, v |-> "", u |-> u]
Tag(uid, text) == [uid |-> uid, text |-> text, present |-> TRUE]

TagA == Tag(UidA, << >>)
TagB == Tag(UidB, << >>)
TagShort == Tag(UidShort, << >>)
TagAdminQuiet == Tag(UidB, << KV("qstart", "22"), KV("QEND", "7"), KV("code", "9999") >>)
TagAdminFallback == Tag(UidB, << KV("day_fallback_ms", "12000") >>)
TagAdminEpoch == Tag(UidB, << KV("epoch", "1000") >>)

\* Settings an earlier session left in flash with the admin payload
\* active_ms=0;sleep_ms=0;add=04 aa bbcc
FastPrefs == [
  saved |-> TRUE, active_ms |-> 10000, welcome_ms |-> 3000, reject_ms |-> 3000,
  marquee_ms |-> 35, code_delay |-> 1500, code |-> "3510", sleep_ms |-> 30000,
  day_fallback_ms |-> 0, tz |-> "EST5EDT,M3,2.0/2,M11.1.0/2", quiet_en |-> TRUE,
  q_start |-> 22, q_end |-> 7, uids |-> << HexA >> ]
InitPrefs == { NoPrefs, FastPrefs }

Cmd(v, a) == [verb |-> v, args |-> a, uid |-> << >>]
CmdUid(v, u) == [verb |-> v, args |-> << >>, uid |-> u]

\* the lines of the runs of Spec: clock, quiet window, forced sleep
Cmds == {
  Cmd("ntp", << >>), Cmd("checknow", << >>), Cmd("sleepnow", << >>),
  Cmd("setepoch", << "1000" >>), Cmd("setepoch", << "0" >>),
  Cmd("quiet", << "off" >>), Cmd("quiet", << "on", "7", "7" >>),
  Cmd("settz", << "UTC0" >>) }

\* the lines of the runs of SpecUI: display timings and the allowlist
CmdsUI == {
  Cmd("welcome_ms", << "-1" >>), Cmd("welcome_ms", << "12000" >>),
  Cmd("code_delay_ms", << "0" >>), Cmd("reject_ms", << "-1" >>),
  Cmd("reject_ms", << "12000" >>), CmdUid("add", TextB), Cmd("clear", << >>),
  Cmd("bogus", << >>) }

NoNet == [wifi |-> FALSE, dns |-> FALSE, ntp |-> FALSE]
\* the verbs whose handling attempts a sync
NetFor(cmd) ==
  IF cmd.verb \in {"ntp", "checknow", "sleepnow"} THEN NetOutcomes ELSE {NoNet}

LoopGap == 1000                 \* ms from one loop() iteration to the next
Ext0Gaps == { 60000, 3600000 }  \* ms asleep before a tag pulls IRQ low
OffGap == 5000                  \* ms without power at a power cycle

-----------------------------------------------------------------------------
(* Actions *)

\* power is applied for the first time: RAM holds the compiled values, the
\* RTC domain is clear, flash holds f, the true time is u
PowerOn(u, f) == [
  gNfcUp |-> FALSE, timeValid |-> FALSE, mode |-> "MODE_SIGN",
  displayAwake |-> FALSE, lastScanMs |-> 0, modeUntilMs |-> 0,
  recognizedLast |-> FALSE, codeShowAtMs |-> 0, lastUidHex |-> << >>,
  lastUidLen |-> 0, lastWasRecognized |-> FALSE, lastGrantedHex |-> << >>,
  lastPNTry |-> 0,
  SET_ACTIVE_MS |-> 120000, SET_WELCOME_MS |-> 3000, SET_REJECT_MS |-> 3000,
  SET_MARQUEE_MS |-> 35, SET_CODE_DELAY_MS |-> 1500, SET_SLEEP_MS |-> 180000,
  SET_DAY_FALLBACK_MS |-> 0, UNLOCK_CODE |-> "3510", QUIET_EN |-> TRUE,
  QUIET_START_H |-> 22, QUIET_END_H |-> 7, SET_TZ |-> EST, allowUids |-> << >>,
  gPlannedWakeEpoch |-> 0, gLastSyncEpoch |-> 0,
  RSTPDN |-> "LOW", oled |-> "OFF", wifi |-> "OFF", autoPoll |-> FALSE,
  wakeExt0 |-> "none", wakeTimer |-> -1, rtc |-> 0, subMs |-> 0, millis |-> 0,
  prefs |-> f, utc |-> u,
  pc |-> "boot", wakeCause |-> "UNDEFINED", sleepProc |-> "none",
  sleepBy |-> "none", lastOp |-> "power", lastSync |-> "none", boot |-> NoBoot,
  scan |-> NoTag, ar |-> [ok |-> FALSE, msg |-> ""], ret |-> FALSE,
  boots |-> 0, nCmd |-> 0, nScan |-> 0 ]

InitOf(instants, flash) == \E u \in instants, f \in flash : Is(PowerOn(u, f))

\* setup() runs after a reset
SetupOf(found) ==
  /\ pc = "boot" /\ boots < MaxBoots
  /\ \E nfcOk \in found, first \in NetOutcomes, forced \in NetOutcomes :
       Commit([setup(St, nfcOk, first, forced) EXCEPT !.boots = @ + 1, !.lastOp = "setup"])

\* the state a loop() iteration starts in, LoopGap after the last one
Begin ==
  [Elapse(St, LoopGap) EXCEPT !.scan = NoTag, !.lastOp = "loop", !.boot = NoBoot,
                              !.lastSync = "none", !.ret = FALSE,
                              !.ar = [ok |-> FALSE, msg |-> ""]]

Running ==
  /\ pc = "run"
  /\ millis < (IF boots <= 1 THEN MaxUptime ELSE MaxUptimeLater) * 1000
EventSlot == (millis \div 1000) % EventEvery = 0

\* commits one loop() iteration; whether the PN532 acknowledges InAutoPoll
\* is drawn when the iteration enters daytime sleep
Iterate(cmd, tag, net) ==
  LET r == loop(Begin, cmd, tag, net, TRUE) IN
  IF r.sleepProc = "day"
    THEN \E autoOK \in BOOLEAN : Commit(loop(Begin, cmd, tag, net, autoOK))
    ELSE Commit(r)

\* loop() with nothing on the serial line and no tag in the field
LoopIdle == Running /\ Iterate(NoCmd, NoTag, NoNet)

\* loop() with a line waiting on the serial port
LoopSerialOf(lines, max) ==
  /\ Running /\ EventSlot /\ nCmd < max
  /\ \E cmd \in lines : \E net \in NetFor(cmd) : Iterate(cmd, NoTag, net)

\* loop() with a tag in the field of the reader
LoopScanOf(tags, max) ==
  /\ Running /\ EventSlot /\ nScan < max
  /\ \E tag \in tags : Iterate(NoCmd, tag, NoNet)

\* time asleep: the system time and the true time advance
Asleep(s, ms) ==
  LET sub == s.subMs + ms IN
  [s EXCEPT !.subMs = sub % 1000, !.rtc = s.rtc + sub \div 1000,
            !.utc = s.utc + sub \div 1000]

\* the timer wake source fires
WakeTimer ==
  /\ pc = "asleep" /\ wakeTimer >= 0
  /\ Commit([Reset(Asleep(St, wakeTimer), "TIMER") EXCEPT !.lastOp = "wake"])

\* a tag comes into the field: the PN532 pulls IRQ low, EXT0 fires
WakeExt0 ==
  /\ pc = "asleep" /\ wakeExt0 = "LOW" /\ autoPoll /\ RSTPDN = "HIGH"
  /\ \E gap \in Ext0Gaps :
       /\ wakeTimer < 0 \/ gap < wakeTimer
       /\ Commit([Reset(Asleep(St, gap), "EXT0") EXCEPT !.lastOp = "wake"])

\* power is lost and comes back: the RTC domain is reset too
PowerCycle ==
  /\ pc \in {"run", "asleep"} /\ boots < MaxBoots
  /\ Commit([Reset(St, "UNDEFINED") EXCEPT
               !.gPlannedWakeEpoch = 0, !.gLastSyncEpoch = 0, !.rtc = 0,
               !.subMs = 0, !.utc = @ + OffGap \div 1000, !.RSTPDN = "LOW",
               !.oled = "OFF", !.autoPoll = FALSE, !.lastOp = "power"])

-----------------------------------------------------------------------------
(* Spec: the device through sleep and wake-up, with the lines and tags that
   bear on the clock, the quiet window and the sleep entries *)

Init == InitOf(StartInstants, InitPrefs)
Setup == SetupOf({TRUE})
LoopSerial == LoopSerialOf(Cmds, MaxCmds)
LoopScan == LoopScanOf({TagA, TagAdminFallback, TagAdminEpoch}, MaxScans)
Next == Setup \/ LoopIdle \/ LoopSerial \/ LoopScan \/ WakeTimer \/ WakeExt0 \/ PowerCycle
Spec == Init /\ [][Next]_vars

-----------------------------------------------------------------------------
(* SpecUI: one boot at noon, with the lines and tags that bear on the mode
   machine *)

InitUI == InitOf({At(12, 0, 0)}, InitPrefs)
SetupUI == SetupOf(BOOLEAN)
LoopSerialUI == LoopSerialOf(CmdsUI, MaxCmds)
LoopScanUI == LoopScanOf({TagA, TagB, TagShort, TagAdminQuiet}, MaxScansUI)
NextUI == SetupUI \/ LoopIdle \/ LoopSerialUI \/ LoopScanUI
SpecUI == InitUI /\ [][NextUI]_vars

-----------------------------------------------------------------------------
(* SpecQuiet: inQuietHours() on every window and every hour of the day *)

Hours == 0 .. 23
Leads == { 1, 3 }
\* the device up and running with the window sH -> eH, a few seconds
\* before h:00:00: the next loop() iteration runs at h:00:00 or 2 s earlier
InitQuiet ==
  \E en \in BOOLEAN, sH \in Hours, eH \in Hours, h \in Hours, tv \in BOOLEAN,
     lead \in Leads :
    Is([setup(PowerOn(At(h, 0, 0) - lead, NoPrefs), TRUE, NoNet, NoNet) EXCEPT
          !.QUIET_EN = en, !.QUIET_START_H = sH, !.QUIET_END_H = eH,
          !.rtc = At(h, 0, 0) - lead, !.timeValid = tv, !.boot = NoBoot,
          !.lastSync = "none", !.ret = FALSE, !.lastOp = "power"])
\* inQuietHours() is called
EvalQuiet ==
  /\ lastOp = "power"
  /\ Commit([St EXCEPT !.ret = inQuietHours(St), !.lastOp = "inQuietHours"])
\* one loop() iteration with no line and no tag
LoopQuiet == lastOp = "power" /\ Iterate(NoCmd, NoTag, NoNet)
NextQuiet == EvalQuiet \/ LoopQuiet
SpecQuiet == InitQuiet /\ [][NextQuiet]_vars

-----------------------------------------------------------------------------
(* Claims *)

\* the hour of the day on the local wall clock, in Eastern Standard Time
HourNow == ((rtc - 5 * 3600) % DAY_S) \div 3600

\* C1: for every enabled flag and every start, end and hour in 0..23,
\* inQuietHours() with a readable clock returns false when the window is
\* disabled, true when start = end, start <= hour < end when start < end,
\* and (hour >= start or hour < end) when start > end.
C1_QuietWindow ==
  lastOp = "inQuietHours" =>
    ret = (IF ~QUIET_EN THEN FALSE
           ELSE IF QUIET_START_H = QUIET_END_H THEN TRUE
           ELSE IF QUIET_START_H < QUIET_END_H
             THEN QUIET_START_H <= HourNow /\ HourNow < QUIET_END_H
           ELSE HourNow >= QUIET_START_H \/ HourNow < QUIET_END_H)
\* 22 -> 7 evaluated at 23 h: quiet, by the wrap over midnight
C1_Witness ==
  /\ lastOp = "inQuietHours" /\ QUIET_EN /\ QUIET_START_H = 22
  /\ QUIET_END_H = 7 /\ HourNow = 23 /\ ret = TRUE

\* C2: in every state quietNow() is false when timeValid is false or the
\* quiet window is disabled, whatever the clock hour and the window; and a
\* loop() iteration that starts without valid time does not suspend in the
\* night-timer procedure.
C2_NoQuietWithoutTime ==
  /\ []((~timeValid \/ ~QUIET_EN) => ~quietNow(St))
  /\ [][(~timeValid /\ LoopQuiet) => ~(pc' = "asleep" /\ sleepProc' = "night")]_vars
\* 23 h inside the window 22 -> 7, no valid time: the iteration ran and the
\* device is still awake
C2_Witness ==
  /\ lastOp = "loop" /\ ~timeValid /\ QUIET_EN /\ QUIET_START_H = 22
  /\ QUIET_END_H = 7 /\ HourNow = 23 /\ pc = "run"

\* the CPU is suspended by the procedure proc
Suspended(proc) == pc = "asleep" /\ sleepProc = proc

\* C3: at the suspend of the night-timer procedure the display is off, the
\* PN532 is held in reset (RSTPDN low, gNfcUp false), no EXT0/EXT1/GPIO wake
\* source is armed and the timer is armed; the other sleep procedure leaves
\* the PN532 out of reset.
C3_NightSuspend ==
  /\ Suspended("night") =>
        /\ oled = "OFF" /\ ~displayAwake
        /\ RSTPDN = "LOW" /\ ~gNfcUp
        /\ wakeExt0 = "none" /\ wakeTimer >= 0
  /\ (pc = "asleep" /\ sleepProc # "night") => RSTPDN = "HIGH"
\* the loop suspended for the night with the timer set to the end hour
C3_Witness ==
  /\ Suspended("night") /\ sleepBy = "loop" /\ RSTPDN = "LOW"
  /\ wakeTimer > ONE_MIN /\ wakeExt0 = "none"

\* C4: at the suspend of the daytime procedure the PN532 is out of reset,
\* the display is off, EXT0 is armed on level low, and the timer is armed
\* exactly when SET_DAY_FALLBACK_MS is not zero.
C4_DaySuspend ==
  Suspended("day") =>
    /\ RSTPDN = "HIGH" /\ oled = "OFF" /\ ~displayAwake
    /\ wakeExt0 = "LOW"
    /\ (wakeTimer >= 0) <=> (SET_DAY_FALLBACK_MS # 0)
    /\ (SET_DAY_FALLBACK_MS # 0) => wakeTimer = SET_DAY_FALLBACK_MS
\* day sleep with the fallback interval an admin tag configured
C4_Witness ==
  /\ Suspended("day") /\ SET_DAY_FALLBACK_MS = 12000 /\ wakeTimer = 12000
  /\ wakeExt0 = "LOW" /\ RSTPDN = "HIGH"

\* C5: the radio is off at every suspend, on every sleep entry path, and
\* it is off when ensureTimeSync returns from an attempt, whether the
\* attempt succeeded, failed to connect, failed DNS or timed out.
C5_RadioOff ==
  /\ pc = "asleep" => wifi = "OFF"
  /\ lastSync \in {"ok", "connect", "dns", "timeout"} => wifi = "OFF"
  /\ \A net \in NetOutcomes, force \in BOOLEAN :
       LET r == ensureTimeSync(St, 10000, 10000, force, net) IN
       r.lastSync # "skipped" => r.wifi = "OFF"
\* sleepnow without valid time: the night path synced, then suspended
C5_Witness ==
  /\ Suspended("night") /\ sleepBy = "sleepnow" /\ lastSync = "ok"
  /\ wifi = "OFF"

\* no sync attempt of this boot succeeded
BootSyncFailed == lastOp = "setup" /\ boot.first # "ok" /\ boot.forced # "ok"

\* C6: when every boot sync fails: after a timer wake with
\* gPlannedWakeEpoch > 0 the clock is valid and set to gPlannedWakeEpoch;
\* after any other boot with gPlannedWakeEpoch = 0 and gLastSyncEpoch > 0
\* the clock is valid and set to gLastSyncEpoch; with both values zero
\* timeValid stays false and quietNow() is false.
C6_BootLadder ==
  /\ (BootSyncFailed /\ boot.cause = "TIMER" /\ boot.planned > 0)
       => (timeValid /\ rtc = boot.planned)
  /\ (BootSyncFailed /\ boot.cause # "TIMER" /\ boot.planned = 0 /\ boot.last > 0)
       => (timeValid /\ rtc = boot.last)
  /\ (BootSyncFailed /\ boot.planned = 0 /\ boot.last = 0)
       => (~timeValid /\ ~quietNow(St))
\* a tag woke the device, no sync succeeded, the clock was set from the
\* epoch of the last sync
C6_Witness ==
  /\ BootSyncFailed /\ boot.cause = "EXT0" /\ boot.planned = 0 /\ boot.last > 0
  /\ boot.rung = "last" /\ timeValid /\ rtc = boot.last
\* the other two rungs
C6_PlannedRung ==
  /\ BootSyncFailed /\ boot.cause = "TIMER" /\ boot.planned > 0
  /\ boot.rung = "planned" /\ timeValid
C6_NoRung ==
  /\ BootSyncFailed /\ boot.planned = 0 /\ boot.last = 0 /\ ~timeValid

\* seconds from now to the next endHour:00:00 on the local wall clock, the
\* next day's when today's is not in the future
SecondOfDay == (rtc + TzOffset(SET_TZ)) % DAY_S
UntilEndHour ==
  IF QUIET_END_H * 3600 > SecondOfDay
    THEN QUIET_END_H * 3600 - SecondOfDay
    ELSE QUIET_END_H * 3600 + DAY_S - SecondOfDay

\* C7: at the suspend of the night-timer procedure: with timeValid the
\* timer is the time to the next endHour:00:00 local, at least one minute,
\* and gPlannedWakeEpoch is now + that duration; without it the timer is
\* 30 minutes and gPlannedWakeEpoch is 0.
C7_NightDuration ==
  Suspended("night") =>
    IF timeValid
      THEN /\ wakeTimer = Max(UntilEndHour * 1000, ONE_MIN)
           /\ gPlannedWakeEpoch = rtc + wakeTimer \div 1000
      ELSE wakeTimer = THIRTY_MIN /\ gPlannedWakeEpoch = 0
\* the same, for a system time that getLocalTime() accepts
C7_ReadableClock ==
  (Suspended("night") /\ (timeValid => getLocalTime(St))) => C7_NightDuration
\* timeValid set from an epoch of 1970: the timer is the one-minute floor
C7_Unreadable ==
  /\ Suspended("night") /\ timeValid /\ ~getLocalTime(St)
  /\ wakeTimer = ONE_MIN /\ UntilEndHour > 3600
\* 23:10 with endHour 7: 7 h 50 min
C7_Example ==
  /\ Suspended("night") /\ timeValid /\ SecondOfDay = 23 * 3600 + 10 * 60
  /\ QUIET_END_H = 7 /\ wakeTimer = (7 * 3600 + 50 * 60) * 1000
\* no time after the sync attempt of the night path: the 30 minute nap
C7_Nap ==
  /\ Suspended("night") /\ ~timeValid /\ lastSync \in {"connect", "dns", "timeout"}
  /\ wakeTimer = THIRTY_MIN /\ gPlannedWakeEpoch = 0

\* night-timer sleep is entered with valid time at exactly endHour:00:00
EnteredAtEndHour ==
  Suspended("night") /\ timeValid /\ SecondOfDay = QUIET_END_H * 3600

\* C8 (as stated): entered with a valid clock at exactly endHour:00:00 local,
\* the sleep delay is the one-minute floor.
C8_FloorAtEndHour == EnteredAtEndHour => wakeTimer = ONE_MIN
\* C8 (as the code has it): entered at exactly endHour:00:00 the delay is a
\* full day; the one-minute floor is the delay when less than a minute is
\* left to endHour:00:00.
C8_DayAtEndHour ==
  /\ EnteredAtEndHour => wakeTimer = DAY_S * 1000
  /\ (Suspended("night") /\ timeValid /\ UntilEndHour < 60) => wakeTimer = ONE_MIN
\* window 7 -> 7 entered at 07:00:00: the timer is 24 h
C8_Witness ==
  /\ EnteredAtEndHour /\ QUIET_END_H = 7 /\ QUIET_START_H = 7
  /\ wakeTimer = DAY_S * 1000 /\ gPlannedWakeEpoch = rtc + DAY_S
\* two seconds before endHour: the floor
C8_Floor ==
  /\ Suspended("night") /\ timeValid /\ UntilEndHour = 2 /\ wakeTimer = ONE_MIN

-----------------------------------------------------------------------------
(* The mode machine, step by step: `now` is millis() of the iteration that
   makes the step, which is millis' *)

\* the iteration read a tag that carries no admin payload
PlainScan == scan'.present /\ ~HasEq(scan'.text)
\* the allowlist admits the UID of that tag
Admitted ==
  /\ Len(scan'.uid) >= 4
  /\ Len(allowUids) = 0 \/ inAllowlist(St, uidHexNoSep(scan'.uid))
\* an iteration without line and tag that did not suspend for the night
IdleStep == LoopIdle /\ sleepProc' # "night"
\* the idle blank is due in the iteration
BlankDue == U32(millis' - lastScanMs) > SET_ACTIVE_MS
HoldMs == Max(SET_WELCOME_MS, 1500)

\* C9 (as stated): a recognized scan in MODE_SIGN gives MODE_WELCOME with
\* modeUntilMs = now + welcome_ms and codeShowAtMs = now + welcome_ms +
\* code_delay_ms; without a further scan MODE_WELCOME is left for MODE_CODE,
\* at now >= codeShowAtMs, and MODE_CODE is left for MODE_SIGN.
C9_Original ==
  /\ [][(mode = "MODE_SIGN" /\ PlainScan /\ Admitted) =>
          /\ mode' = "MODE_WELCOME"
          /\ modeUntilMs' = millis' + SET_WELCOME_MS
          /\ codeShowAtMs' = millis' + SET_WELCOME_MS + SET_CODE_DELAY_MS]_vars
  /\ [][(IdleStep /\ mode = "MODE_WELCOME" /\ recognizedLast /\ mode' # mode) =>
          (mode' = "MODE_CODE" /\ millis' >= codeShowAtMs)]_vars
  /\ [][(IdleStep /\ mode = "MODE_CODE" /\ mode' # mode) =>
          (mode' = "MODE_SIGN" /\ millis' > modeUntilMs)]_vars

\* C9 (as the code has it): a recognized scan without admin payload sets
\* codeShowAtMs = now + welcome_ms + code_delay_ms and modeUntilMs = now +
\* welcome_ms in uint32_t arithmetic and gives MODE_WELCOME (when
\* codeShowAtMs <= now the code is shown in the same iteration). Without a
\* further scan, the idle blank (now - lastScanMs > active_ms) takes
\* MODE_WELCOME and MODE_CODE to MODE_SLEEP; otherwise MODE_WELCOME becomes
\* MODE_CODE in the first iteration with now >= codeShowAtMs, with
\* modeUntilMs = now + max(welcome_ms, 1500), and MODE_CODE becomes
\* MODE_SIGN in the first iteration with now > modeUntilMs.
C9_WelcomeThenCode ==
  /\ [][(PlainScan /\ Admitted) =>
          /\ recognizedLast'
          /\ codeShowAtMs' = U32(U32(millis' + SET_WELCOME_MS) + SET_CODE_DELAY_MS)
          /\ IF millis' < codeShowAtMs'
               THEN mode' = "MODE_WELCOME" /\ modeUntilMs' = U32(millis' + SET_WELCOME_MS)
               ELSE /\ modeUntilMs' = U32(millis' + HoldMs)
                    /\ mode' = IF millis' > modeUntilMs' THEN "MODE_SIGN" ELSE "MODE_CODE"]_vars
  /\ [][(IdleStep /\ mode = "MODE_WELCOME" /\ recognizedLast) =>
          IF BlankDue THEN mode' = "MODE_SLEEP"
          ELSE IF millis' >= codeShowAtMs
            THEN /\ modeUntilMs' = U32(millis' + HoldMs)
                 /\ mode' = IF millis' > modeUntilMs' THEN "MODE_SIGN" ELSE "MODE_CODE"
          ELSE mode' = "MODE_WELCOME"]_vars
  /\ [][(IdleStep /\ mode = "MODE_CODE") =>
          mode' = IF BlankDue THEN "MODE_SLEEP"
                  ELSE IF millis' > modeUntilMs THEN "MODE_SIGN" ELSE "MODE_CODE"]_vars
\* back in MODE_SIGN after the code was held: modeUntilMs is the end of the
\* hold, which lies after codeShowAtMs
C9_Witness ==
  /\ mode = "MODE_SIGN" /\ recognizedLast /\ nScan = 1 /\ displayAwake
  /\ lastOp = "loop" /\ codeShowAtMs > 0 /\ modeUntilMs >= codeShowAtMs + HoldMs
  /\ millis > modeUntilMs
\* MODE_CODE on display
C9_CodeShown ==
  mode = "MODE_CODE" /\ recognizedLast /\ millis >= codeShowAtMs /\ displayAwake

\* C10 (as stated): a scan of a UID the allowlist does not admit, or of a
\* UID shorter than 4 bytes, gives MODE_POOP with modeUntilMs = now +
\* reject_ms, never MODE_WELCOME or MODE_CODE; without a further scan
\* MODE_POOP is left for MODE_SIGN, once now is past modeUntilMs.
C10_Original ==
  /\ [][(PlainScan /\ ~Admitted) =>
          /\ mode' = "MODE_POOP"
          /\ modeUntilMs' = millis' + SET_REJECT_MS]_vars
  /\ [][(IdleStep /\ mode = "MODE_POOP" /\ mode' # mode) =>
          (mode' = "MODE_SIGN" /\ millis' > modeUntilMs)]_vars

\* C10 (as the code has it): a scan without admin payload of a UID that is
\* not admitted or shorter than 4 bytes sets modeUntilMs = now + reject_ms
\* in uint32_t arithmetic and gives MODE_POOP (MODE_SIGN at once when that
\* instant is already past), never MODE_WELCOME or MODE_CODE. Without a
\* further scan the idle blank takes MODE_POOP to MODE_SLEEP; otherwise
\* MODE_POOP becomes MODE_SIGN in the first iteration with now > modeUntilMs.
C10_RejectThenSign ==
  /\ [][(PlainScan /\ ~Admitted) =>
          /\ ~recognizedLast'
          /\ modeUntilMs' = U32(millis' + SET_REJECT_MS)
          /\ mode' = IF millis' > modeUntilMs' THEN "MODE_SIGN" ELSE "MODE_POOP"]_vars
  /\ [][(IdleStep /\ mode = "MODE_POOP") =>
          mode' = IF BlankDue THEN "MODE_SLEEP"
                  ELSE IF millis' > modeUntilMs THEN "MODE_SIGN" ELSE "MODE_POOP"]_vars
\* back in MODE_SIGN after the reject animation of a tag that is not on
\* the allowlist
C10_Witness ==
  /\ mode = "MODE_SIGN" /\ ~recognizedLast /\ nScan = 1 /\ displayAwake
  /\ lastOp = "loop" /\ lastUidHex = uidHexNoSep(UidB) /\ Len(allowUids) > 0
  /\ modeUntilMs > 0 /\ millis > modeUntilMs
\* the same after a UID of 2 bytes
C10_ShortUid ==
  /\ mode = "MODE_SIGN" /\ ~recognizedLast /\ lastUidLen = 2 /\ nScan = 1
  /\ modeUntilMs > 0 /\ millis > modeUntilMs

\* a loop() iteration that read no tag and did not suspend
QuietStep == pc = "run" /\ lastOp' = "loop" /\ ~scan'.present /\ pc' = "run"

\* C11: from any mode but MODE_SLEEP, when the last successful scan is more
\* than active_ms ago, a loop() iteration that reads no tag and does not
\* suspend sets MODE_SLEEP and turns the display off, whatever the mode was
\* and whatever modeUntilMs and codeShowAtMs are.
C11_IdleBlank ==
  [][(QuietStep /\ mode # "MODE_SLEEP" /\ U32(millis' - lastScanMs) > SET_ACTIVE_MS')
       => (mode' = "MODE_SLEEP" /\ oled' = "OFF" /\ ~displayAwake')]_vars
\* blanked while the hold of the code had not expired
C11_Witness ==
  /\ mode = "MODE_SLEEP" /\ ~displayAwake /\ oled = "OFF" /\ pc = "run"
  /\ lastOp = "loop" /\ recognizedLast /\ modeUntilMs > millis
  /\ U32(millis - lastScanMs) > SET_ACTIVE_MS

-----------------------------------------------------------------------------
(* SpecList: one boot at noon and a run of allowlist operations over the
   serial line and by admin tags, with tag scans in between *)

MaxListOps == 5

\* flash left by a session that filled the list up to one free slot
NearFullPrefs ==
  [FastPrefs EXCEPT !.uids = [i \in 1..(MAX_UIDS - 1) |-> uidHexNoSep(<< 4, 0, 0, i >>)]]
ListPrefs == { NoPrefs, FastPrefs, NearFullPrefs }

CmdsList == {
  CmdUid("add", TextA), CmdUid("add", TextB), CmdUid("remove", TextB),
  Cmd("clear", << >>), Cmd("addlast", << >>) }
TagAdminAdd == Tag(UidShort, << KU("add", TextB) >>)
TagAdminRemove == Tag(UidShort, << KU("remove", TextA) >>)
TagAdminClear == Tag(UidShort, << KV("clear", "1") >>)
TagsList == { TagA, TagB, TagAdminAdd, TagAdminRemove, TagAdminClear }

RunningList == pc = "run" /\ nCmd + nScan < MaxListOps
ListDo(cmd, tag) == RunningList /\ Iterate(cmd, tag, NoNet)

InitList == InitOf({At(12, 0, 0)}, ListPrefs)
SetupList == SetupOf({TRUE})
LoopSerialList == \E cmd \in CmdsList : ListDo(cmd, NoTag)
LoopScanList == \E tag \in TagsList : ListDo(NoCmd, tag)
NextList == SetupList \/ LoopSerialList \/ LoopScanList
SpecList == InitList /\ [][NextList]_vars

-----------------------------------------------------------------------------
(* The allowlist *)

\* the UID as upper-case hex without spaces
NormalizedUid(uid) == toUpperCase(removeSpaces(uidHexNoSep(uid)))
\* some entry of the list equals the text
IsEntry(list, text) == \E i \in 1..Len(list) : list[i] = text

\* C12: a scanned UID of at least 4 bytes is recognized when the allowlist
\* is empty; when it is not, it is recognized exactly when its upper-case
\* hex form without spaces equals an entry, after whatever adds, removes,
\* clears and addlasts over the serial line and by admin tags came before.
C12_Recognition ==
  [][(PlainScan /\ Len(scan'.uid) >= 4)
       => /\ allowUids' = allowUids
          /\ recognizedLast' = (Len(allowUids) = 0 \/ IsEntry(allowUids, NormalizedUid(scan'.uid)))
          /\ lastWasRecognized' = recognizedLast'
          /\ mode' = IF recognizedLast' THEN "MODE_WELCOME" ELSE "MODE_POOP"]_vars
\* the tag 04DDEEFF11 is recognized as the second entry of a list that an
\* add of the lower-case text put it on
C12_Witness ==
  /\ recognizedLast /\ mode = "MODE_WELCOME" /\ scan.present /\ scan.uid = UidB
  /\ Len(allowUids) >= 2 /\ allowUids[1] # NormalizedUid(UidB)
  /\ IsEntry(allowUids, NormalizedUid(UidB))
  /\ nCmd + nScan >= 2
\* the tag 04AABBCC is rejected after its entry was removed from a list
\* that keeps other entries
C12_Rejected ==
  /\ ~recognizedLast /\ mode = "MODE_POOP" /\ scan.present /\ scan.uid = UidA
  /\ Len(allowUids) > 0 /\ nCmd + nScan >= 3
\* every tag is recognized again after a clear
C12_Emptied ==
  /\ recognizedLast /\ scan.present /\ Len(scan.uid) >= 4 /\ allowUids = << >>
  /\ nCmd + nScan >= 2 /\ prefs.saved

-----------------------------------------------------------------------------
(* SpecAdmin: one boot at noon with admin tags and plain tags in the field,
   and idle iterations in between for the timers of the mode machine *)

MaxScansAdmin == 2
MaxUptimeAdmin == 16

\* flash left by a session that set another window, code and marquee step
OddPrefs ==
  [FastPrefs EXCEPT !.q_start = 0, !.q_end = 1, !.code = "1234", !.marquee_ms = 150]
AdminPrefs == { NoPrefs, OddPrefs }

\* a line of the payload without '='
NoEq == [eq |-> FALSE, k |-> "", v |-> "", u |-> << >>]
\* active_ms=0;welcome_ms=2000
TagAdminRange == Tag(UidB, << KV("active_ms", "0"), KV("welcome_ms", "2000") >>)
\* qstart=25;marquee_ms=1;sleep_ms=1000
TagAdminHour ==
  Tag(UidB, << KV("qstart", "25"), KV("marquee_ms", "1"), KV("sleep_ms", "1000") >>)
\* reject_ms=2000;code=12345;bogus=1;hello;welcome_ms=1000
TagAdminMixed ==
  Tag(UidB, << KV("reject_ms", "2000"), KV("code", "12345"), KV("bogus", "1"), NoEq,
               KV("welcome_ms", "1000") >>)
\* code_delay_ms=0;qend=1
TagAdminValid == Tag(UidB, << KV("code_delay_ms", "0"), KV("qend", "1") >>)
TagsAdmin == { TagA, TagShort, TagAdminQuiet, TagAdminRange, TagAdminHour,
               TagAdminMixed, TagAdminValid }

InitAdmin == InitOf({At(12, 0, 0)}, AdminPrefs)
SetupAdmin == SetupOf({TRUE})
RunningAdmin == pc = "run" /\ millis < MaxUptimeAdmin * 1000
LoopIdleAdmin == RunningAdmin /\ Iterate(NoCmd, NoTag, NoNet)
LoopScanAdmin ==
  /\ RunningAdmin /\ nScan < MaxScansAdmin
  /\ \E tag \in TagsAdmin : Iterate(NoCmd, tag, NoNet)
NextAdmin == SetupAdmin \/ LoopIdleAdmin \/ LoopScanAdmin
SpecAdmin == InitAdmin /\ [][NextAdmin]_vars

-----------------------------------------------------------------------------
(* Admin tags *)

\* the iteration read a tag that carries an admin payload
AdminScan == scan'.present /\ HasEq(scan'.text)

\* C13: a tag read whose text holds '=' applies the configuration and runs
\* no recognition: recognizedLast and codeShowAtMs stay, and mode and
\* modeUntilMs stay unless a timer of the mode machine that was already
\* running expires in the same iteration; the payload
\* qstart=22;qend=7;code=9999 sets all three settings and saves them.
C13_AdminScan ==
  [][AdminScan =>
       /\ recognizedLast' = recognizedLast /\ codeShowAtMs' = codeShowAtMs
       /\ lastWasRecognized' = lastWasRecognized /\ lastGrantedHex' = lastGrantedHex
       /\ \/ mode' = mode /\ modeUntilMs' = modeUntilMs
          \/ /\ mode = "MODE_WELCOME" /\ recognizedLast /\ millis' >= codeShowAtMs
             /\ mode' = "MODE_CODE"
          \/ /\ mode \in {"MODE_CODE", "MODE_POOP"} /\ millis' > modeUntilMs
             /\ mode' = "MODE_SIGN" /\ modeUntilMs' = modeUntilMs
       /\ lastScanMs' = U32(millis' - 1200) /\ displayAwake'
       /\ scan'.text = TagAdminQuiet.text =>
            /\ QUIET_START_H' = 22 /\ QUIET_END_H' = 7 /\ UNLOCK_CODE' = "9999"
            /\ prefs'.q_start = 22 /\ prefs'.q_end = 7 /\ prefs'.code = "9999"
            /\ ar'.ok]_vars
\* the payload qstart=22;qend=7;code=9999 read while a welcome is shown:
\* the window 0 -> 1 and the code 1234 are replaced, the mode is kept
C13_Witness ==
  /\ scan.present /\ scan.text = TagAdminQuiet.text /\ nScan = 2
  /\ mode = "MODE_WELCOME" /\ recognizedLast /\ millis < codeShowAtMs
  /\ SET_MARQUEE_MS = 150 /\ QUIET_START_H = 22 /\ QUIET_END_H = 7
  /\ UNLOCK_CODE = "9999" /\ prefs.code = "9999" /\ ar.ok
\* an admin tag read while the display is blanked: the mode stays
\* MODE_SLEEP with the display on
C13_Blanked ==
  /\ scan.present /\ HasEq(scan.text) /\ mode = "MODE_SLEEP" /\ displayAwake
\* the code comes up in the iteration that read the admin tag
C13_TimerDue ==
  /\ scan.present /\ HasEq(scan.text) /\ mode = "MODE_CODE"
  /\ modeUntilMs = U32(millis + HoldMs)

\* the settings a payload item can name, and the values applyKV accepts
\* for each without changing them
NumericKeys == { "active_ms", "welcome_ms", "reject_ms", "marquee_ms", "code_delay_ms",
                 "qstart", "qend", "sleep_ms", "day_fallback_ms" }
KnownKeys == NumericKeys \cup { "code" }
LowOf(k) ==
  CASE k = "active_ms" -> 10000 [] k \in {"welcome_ms", "reject_ms"} -> 200
    [] k = "marquee_ms" -> 10 [] k = "sleep_ms" -> 30000 [] OTHER -> 0
HighOf(k) ==
  CASE k = "marquee_ms" -> 65535 [] k \in {"qstart", "qend"} -> 23 [] OTHER -> LONG_MAX
SettingIn(s, k) ==
  CASE k = "active_ms" -> s.SET_ACTIVE_MS [] k = "welcome_ms" -> s.SET_WELCOME_MS
    [] k = "reject_ms" -> s.SET_REJECT_MS [] k = "marquee_ms" -> s.SET_MARQUEE_MS
    [] k = "code_delay_ms" -> s.SET_CODE_DELAY_MS [] k = "qstart" -> s.QUIET_START_H
    [] k = "qend" -> s.QUIET_END_H [] k = "sleep_ms" -> s.SET_SLEEP_MS
    [] k = "day_fallback_ms" -> s.SET_DAY_FALLBACK_MS [] k = "code" -> s.UNLOCK_CODE
\* the item names a setting and gives it a value in its range
ItemValid(it) ==
  /\ it.eq /\ lower(it.k) \in KnownKeys
  /\ lower(it.k) = "code" => Len(it.v) = 4
  /\ lower(it.k) \in NumericKeys =>
       (toInt(it.v) >= LowOf(lower(it.k)) /\ toInt(it.v) <= HighOf(lower(it.k)))
\* the item is one applyKV marks the result failed for
ItemRefused(it) ==
  \/ ~it.eq \/ lower(it.k) \notin KnownKeys
  \/ lower(it.k) = "code" /\ Len(it.v) # 4
ItemValue(it) == IF lower(it.k) = "code" THEN it.v ELSE toInt(it.v)

\* C14 (as stated): of the items of an admin payload, each invalid one
\* (numeric value out of range, code not of length 4, unknown key, no '=')
\* leaves the setting it names as it was and marks the result failed, each
\* valid one is applied, and the result is ok exactly when every item is
\* valid.
C14_PerItem ==
  [][AdminScan =>
       /\ \A i \in 1..Len(scan'.text) :
            LET it == scan'.text[i]
                k == lower(it.k) IN
            IF ItemValid(it) THEN SettingIn(St', k) = ItemValue(it)
            ELSE /\ (it.eq /\ k \in KnownKeys) => SettingIn(St', k) = SettingIn(St, k)
                 /\ ~ar'.ok
       /\ ar'.ok = (\A i \in 1..Len(scan'.text) : ItemValid(scan'.text[i]))]_vars
\* what the code does: a numeric value out of range is moved to the nearest
\* end of the range, applied and not reported; the result is failed exactly
\* when an item has no '=', an unknown key or a code not of length 4, and
\* those items change no setting
C14_Clamped ==
  [][AdminScan =>
       /\ \A i \in 1..Len(scan'.text) :
            LET it == scan'.text[i]
                k == lower(it.k) IN
            /\ (it.eq /\ k \in NumericKeys) =>
                 SettingIn(St', k) = constrain(toInt(it.v), LowOf(k), HighOf(k))
            /\ (it.eq /\ k = "code") =>
                 UNLOCK_CODE' = IF Len(it.v) = 4 THEN it.v ELSE UNLOCK_CODE
       /\ ar'.ok = (\A i \in 1..Len(scan'.text) : ~ItemRefused(scan'.text[i]))
       /\ prefs'.active_ms = SET_ACTIVE_MS' /\ prefs'.code = UNLOCK_CODE']_vars
\* active_ms=0;welcome_ms=2000 was read: active_ms is 10000, not the 120000
\* it was, and the result is ok
C14_Witness ==
  /\ scan.present /\ scan.text = TagAdminRange.text /\ nScan = 1 /\ prefs.saved
  /\ SET_MARQUEE_MS = 35 /\ SET_ACTIVE_MS = 10000 /\ SET_WELCOME_MS = 2000 /\ ar.ok
\* reject_ms=2000;code=12345;bogus=1;hello;welcome_ms=1000 was read: the
\* code is kept, the two timings before and after are applied, the result
\* is failed
C14_Mixed ==
  /\ scan.present /\ scan.text = TagAdminMixed.text /\ ~ar.ok
  /\ SET_REJECT_MS = 2000 /\ SET_WELCOME_MS = 1000 /\ UNLOCK_CODE \in {"3510", "1234"}

\* the payload has an item with the key
HasKey(text, key) == \E i \in 1..Len(text) : text[i].eq /\ lower(text[i].k) = key

\* C15: the allowlist never holds more than 16 entries, in RAM or in flash,
\* whatever is added over the serial line or by admin tags; an add to a
\* list of 16 reports failure and leaves the entries and their number as
\* they were.
C15_Capacity ==
  [][/\ Len(allowUids') <= MAX_UIDS /\ Len(prefs'.uids) <= MAX_UIDS
     /\ \A cmd \in CmdsList :
          (cmd.verb \in {"add", "addlast"} /\ Len(allowUids) = MAX_UIDS
             /\ ListDo(cmd, NoTag))
            => (allowUids' = allowUids /\ ~ret' /\ prefs'.uids = prefs.uids)
     /\ (AdminScan /\ HasKey(scan'.text, "add") /\ Len(allowUids) = MAX_UIDS)
          => (allowUids' = allowUids /\ ~ar'.ok /\ prefs'.uids = allowUids)]_vars
\* the admin payload add=04ddeeff11 was read with 16 entries on the list:
\* the result is failed and the UID is not on the list
C15_Witness ==
  /\ scan.present /\ scan.text = TagAdminAdd.text /\ ~ar.ok
  /\ Len(allowUids) = MAX_UIDS /\ ~IsEntry(allowUids, NormalizedUid(UidB))
  /\ prefs.uids = allowUids
\* the sixteenth entry came over the serial line
C15_Filled ==
  /\ Len(allowUids) = MAX_UIDS /\ ret /\ ~scan.present /\ nCmd >= 1
  /\ allowUids[MAX_UIDS] \in { NormalizedUid(UidA), NormalizedUid(UidB) }

-----------------------------------------------------------------------------
(* The clock *)

\* a step of setup() or loop() that is no reset
SessionStep == pc = "run" /\ pc' # "boot"

\* C16 (as stated): within a boot session timeValid, once true, stays true
\* through every line, tag and sleep entry until the next boot.
C16_ValidityKept ==
  [][(SessionStep /\ timeValid) => timeValid']_vars
\* the same while the system time is one getLocalTime() accepts
C16_KeptWhenReadable ==
  [][(SessionStep /\ timeValid /\ getLocalTime(St)) => timeValid']_vars
\* validity came from epoch=1000 and a sync that got no answer took it away
C16_Cleared ==
  /\ ~timeValid /\ lastSync = "timeout" /\ pc = "run" /\ lastOp = "loop"
  /\ rtc >= 1000 /\ rtc < Y2017 /\ nScan = 1 /\ nCmd = 1

\* a sync attempted in the present state, forced or not, under one outcome
\* of the network
SyncNow(force, net) == ensureTimeSync(St, 10000, 10000, force, net)
SameClock(y) ==
  /\ y.timeValid = timeValid /\ y.rtc = rtc /\ y.subMs = subMs
  /\ y.gLastSyncEpoch = gLastSyncEpoch /\ y.SET_TZ = SET_TZ

\* C17 (as stated): a sync attempt that fails (skipped, no WiFi, no DNS, no
\* time within the timeout) returns false and leaves timeValid, the system
\* time and gLastSyncEpoch as they were.
C17_FailedSync ==
  pc = "run" =>
    \A force \in BOOLEAN, net \in NetOutcomes :
      ~SyncNow(force, net).ret => SameClock(SyncNow(force, net))
\* the same for the three returns ahead of the time poll, and for the
\* timeout when timeValid was false
C17_EarlyReturns ==
  pc = "run" =>
    \A force \in BOOLEAN, net \in NetOutcomes :
      LET y == SyncNow(force, net) IN
      (~y.ret /\ (y.lastSync # "timeout" \/ ~timeValid)) => SameClock(y)
\* `ntp` timed out on a device whose clock was set to epoch 1000: the
\* attempt returned false and timeValid is no longer true
C17_Witness ==
  /\ lastSync = "timeout" /\ ~ret /\ ~timeValid /\ wifi = "OFF" /\ pc = "run"
  /\ rtc >= 1000 /\ rtc < Y2017 /\ gLastSyncEpoch < 1000 /\ ~scan.present
\* the failing returns that change nothing
C17_Unchanged ==
  /\ lastSync \in {"skipped", "connect", "dns"} /\ ~ret /\ timeValid /\ pc = "run"
  /\ lastOp = "loop" /\ nCmd = 1 /\ ~scan.present

\* the instants the clock is set from, as the text of a line or payload
InstantTexts == { "-1", "0", "1", "1000", "1762862400" }
\* the clock of y is set to the instant, ms later, and valid
ClockSet(y, epoch, ms) ==
  y.rtc = epoch + ms \div 1000 /\ y.subMs = ms % 1000 /\ y.timeValid
\* the clock of y is the present one, ms later, and as valid as it was
ClockKept(y, ms) ==
  /\ y.rtc = rtc + (subMs + ms) \div 1000 /\ y.subMs = (subMs + ms) % 1000
  /\ y.timeValid = timeValid

\* C18: setting the clock from an instant (the boot fallback, setepoch and
\* settime, admin epoch= and datetime=) sets the system time to it and
\* timeValid to true when the instant is > 0; when it is <= 0 the system
\* time and timeValid stay and setepoch, settime, epoch= and datetime=
\* report failure.
C18_SetClock ==
  pc = "run" =>
    /\ \A txt \in InstantTexts :
         LET e == strtoll(txt)
             b == setSystemTimeFromEpoch(St, e)
             o == handleSerial(St, Cmd("setepoch", << txt >>), NoNet)
             a == applyConfigText(St, << KV("epoch", txt) >>) IN
         IF e > 0
           THEN /\ ClockSet(b, e, 0)
                /\ ClockSet(o, e, 1200) /\ o.ret
                /\ ClockSet(a, e, 0) /\ a.ar.ok
           ELSE /\ ClockKept(b, 0)
                /\ ClockKept(o, 1200) /\ ~o.ret
                /\ ClockKept(a, 0) /\ ~a.ar.ok
    /\ \A str \in DOMAIN CivilTimes :
         LET e == CivilTimes[str] - TzOffset(SET_TZ)
             o == handleSerial(St, Cmd("settime", << str >>), NoNet)
             a == applyConfigText(St, << KV("datetime", str) >>) IN
         IF e > 0
           THEN ClockSet(o, e, 1200) /\ o.ret /\ ClockSet(a, e, 0) /\ a.ar.ok
           ELSE ClockKept(o, 1200) /\ ~o.ret /\ ClockKept(a, 0) /\ ~a.ar.ok
\* `setepoch 1000` set the clock of a device that had no valid time
C18_Witness ==
  /\ timeValid /\ ret /\ pc = "run" /\ lastOp = "loop" /\ nCmd = 1 /\ nScan = 0
  /\ rtc = 1001 /\ subMs = 200 /\ boot.first # "ok" /\ boot.forced # "ok"
  /\ gLastSyncEpoch = 0
\* `setepoch 0` on a device without valid time: refused, time still invalid
C18_Refused ==
  /\ ~timeValid /\ ~ret /\ pc = "run" /\ lastOp = "loop" /\ nCmd = 1 /\ nScan = 0
  /\ lastSync = "none" /\ displayAwake /\ QUIET_EN /\ SET_TZ # "UTC0"
  /\ millis = LoopGap + 1200

-----------------------------------------------------------------------------
(* The choice of the sleep procedure *)

\* the state ms before s: the clocks are set back, the rest is as in s
Rewind(s, ms) ==
  LET sub == s.subMs - ms IN
  [s EXCEPT !.millis = U32(s.millis - ms),
            !.subMs = sub % 1000,
            !.rtc = IF sub < 0 THEN s.rtc - 1 ELSE s.rtc]
\* the step ends in a suspend entered by loop() itself; the procedures
\* take 40 ms from their call to the suspend
LoopSuspends(proc) ==
  pc = "run" /\ pc' = "asleep" /\ sleepProc' = proc /\ sleepBy' = "loop"
AtEntry == Rewind(St', 40)

\* C19: a loop() iteration enters at most one suspend, by one of the two
\* procedures; it enters night-timer sleep only when quietNow() is true and
\* daytime sleep only when quietNow() is false and
\* millis() - lastScanMs > SET_SLEEP_MS.
C19_OneProcedure ==
  [][/\ (pc = "run" /\ pc' = "asleep") =>
          /\ sleepProc' \in {"night", "day"}
          /\ sleepProc' = "day" => sleepBy' = "loop"
          /\ sleepProc' = "night" => (wakeExt0' = "none" /\ wakeTimer' >= 0)
     /\ LoopSuspends("night") => quietNow(AtEntry)
     /\ LoopSuspends("day") =>
          /\ ~quietNow(AtEntry)
          /\ U32(AtEntry.millis - lastScanMs') > SET_SLEEP_MS']_vars
\* daytime sleep entered with a valid clock outside the window
C19_Witness ==
  /\ pc = "asleep" /\ sleepProc = "day" /\ sleepBy = "loop" /\ timeValid /\ QUIET_EN
  /\ ~quietNow(Rewind(St, 40))
  /\ U32(millis - 40 - lastScanMs) > SET_SLEEP_MS
\* night-timer sleep entered by loop() inside the window
C19_Night ==
  /\ pc = "asleep" /\ sleepProc = "night" /\ sleepBy = "loop"
  /\ quietNow(Rewind(St, 40)) /\ wakeExt0 = "none"

\* the time since the last scan when the procedure was called
IdleAtEntry == U32(AtEntry.millis - lastScanMs')
\* an iteration of loop() with no line on the serial port
NoLineStep == pc = "run" /\ lastOp' = "loop" /\ nCmd' = nCmd

\* C20 (as stated): night-timer sleep is entered by loop() only in quiet
\* hours with the device idle, that is with no scan within the inactivity
\* threshold and no welcome, code or reject display in progress; else only
\* by sleepnow.
C20_QuietAndIdle ==
  [][(pc = "run" /\ pc' = "asleep" /\ sleepProc' = "night") =>
       \/ sleepBy' = "sleepnow"
       \/ /\ sleepBy' = "loop" /\ quietNow(AtEntry)
          /\ IdleAtEntry > SET_ACTIVE_MS' \/ IdleAtEntry > SET_SLEEP_MS'
          /\ mode' \notin {"MODE_WELCOME", "MODE_CODE", "MODE_POOP"}]_vars
\* C20 (amended): night-timer sleep is entered by sleepnow, or by loop() in
\* every iteration in which quietNow() is true once the serial line is
\* handled, whatever the time since the last scan or since boot and
\* whatever the mode; loop() enters it in no other iteration.
C20_QuietOnly ==
  [][/\ (pc = "run" /\ pc' = "asleep" /\ sleepProc' = "night") =>
          \/ sleepBy' = "sleepnow"
          \/ sleepBy' = "loop" /\ quietNow(AtEntry)
     /\ (NoLineStep /\ quietNow(Begin)) =>
          (pc' = "asleep" /\ sleepProc' = "night" /\ sleepBy' = "loop"
             /\ mode' = mode /\ lastScanMs' = lastScanMs)
     /\ (NoLineStep /\ ~quietNow(Begin)) => sleepProc' # "night"]_vars
\* asleep for the night two seconds after a recognized scan, the welcome
\* still on
C20_Witness ==
  /\ pc = "asleep" /\ sleepProc = "night" /\ sleepBy = "loop" /\ nScan = 1
  /\ mode = "MODE_WELCOME" /\ millis < modeUntilMs
  /\ U32(millis - lastScanMs) < 3000
\* asleep for the night in the first iteration after a power-on boot
C20_AfterBoot ==
  /\ pc = "asleep" /\ sleepProc = "night" /\ sleepBy = "loop" /\ boots = 1
  /\ wakeCause = "UNDEFINED" /\ millis = LoopGap + 40 /\ lastScanMs = 0

-----------------------------------------------------------------------------
(* SpecLive: the device left alone. Lines and tags come only in the first
   MaxUptime seconds of a boot; after that loop() runs on by itself, and
   weak fairness of that step says that it keeps running. Iterations are
   followed until the idle time is MaxOverdue seconds past sleep_ms. *)

MaxOverdue == 3
StillDue == U32(millis - lastScanMs) < SET_SLEEP_MS + MaxOverdue * 1000

CmdsLive == { Cmd("quiet", << "off" >>), Cmd("setepoch", << "1000" >>) }
InitLive == InitOf(StartInstants, InitPrefs)
SetupLive == SetupOf({TRUE})
LoopAlone ==
  /\ pc = "run" /\ StillDue
  /\ Iterate(NoCmd, NoTag, NoNet)
LoopSerialLive == LoopSerialOf(CmdsLive, MaxCmds)
LoopScanLive == LoopScanOf({TagA, TagAdminFallback}, MaxScans)
NextLive ==
  SetupLive \/ LoopAlone \/ LoopSerialLive \/ LoopScanLive \/ WakeTimer \/ WakeExt0
\* What a step of LoopAlone shows: an iteration of loop() that took no line
\* and no tag, LoopGap after the last one, with the 40 ms of a sleep entry
\* when it ends in one. loop() is called again as soon as it returns, so
\* this step is taken as long as the device is running.
LoopReturns ==
  /\ pc = "run" /\ StillDue
  /\ lastOp' = "loop" /\ nCmd' = nCmd /\ nScan' = nScan
  /\ millis' \in { U32(millis + LoopGap), U32(millis + LoopGap + 40) }
SpecLive == InitLive /\ [][NextLive]_vars /\ WF_millis(LoopReturns)

C21_FirstChance ==
  [][(LoopAlone /\ pc' = "run") =>
       (~quietNow(Begin) /\ U32(millis' - lastScanMs') <= SET_SLEEP_MS')]_vars
\* the bound of LoopAlone is never what stops loop()
C21_BoundNotReached == pc = "run" => U32(millis - lastScanMs) <= SET_SLEEP_MS
-----------------------------------------------------------------------------
(* Without valid time *)

C22_RetryAtBoot ==
  /\ pc = "run" /\ lastOp = "setup" /\ boots = 2 /\ wakeCause = "EXT0"
  /\ boot.forced = "ok" /\ timeValid

-----------------------------------------------------------------------------
(* Runs of operator lines and admin tags that change the settings: one boot
   at noon, then up to MaxSettingOps lines and tag reads. *)

MaxSettingOps == 3

\* lines of the help text and the README command table, and one that is in
\* neither
CmdsSettings == {
  Cmd("sleep_ms", << "30000" >>), Cmd("day_fallback_ms", << "12000" >>),
  Cmd("active_ms", << "0" >>), Cmd("active_ms", << "12000" >>),
  Cmd("welcome_ms", << "-1" >>), Cmd("reject_ms", << "150" >>),
  Cmd("marquee_ms", << "1" >>), Cmd("marquee_ms", << "70000" >>),
  Cmd("code_delay_ms", << "-1" >>),
  Cmd("unlock", << "12345" >>), Cmd("unlock", << "9999" >>),
  Cmd("quiet", << "on", "25", "30" >>), Cmd("quiet", << "on", "-1", "7" >>),
  Cmd("quiet", << "off" >>), Cmd("quiet", << "on" >>),
  Cmd("settz", << "UTC0" >>), CmdUid("add", TextB), Cmd("clear", << >>),
  Cmd("show", << >>), Cmd("bogus", << >>) }

TagAdminFloors ==
  Tag(UidB, << KV("sleep_ms", "1000"), KV("reject_ms", "-1"), KV("tz", "UTC0") >>)
TagsSettings == { TagA, TagAdminQuiet, TagAdminFallback, TagAdminRange,
                  TagAdminHour, TagAdminMixed, TagAdminFloors }

RunningSettings == pc = "run" /\ nCmd + nScan < MaxSettingOps
SettingsDo(cmd, tag) == RunningSettings /\ Iterate(cmd, tag, NoNet)

InitSettings == InitOf({At(12, 0, 0)}, {NoPrefs})
SetupSettings == SetupOf({TRUE})
LoopSerialSettings == \E cmd \in CmdsSettings : SettingsDo(cmd, NoTag)
LoopScanSettings == \E tag \in TagsSettings : SettingsDo(NoCmd, tag)
NextSettings == SetupSettings \/ LoopSerialSettings \/ LoopScanSettings
SpecSettings == InitSettings /\ [][NextSettings]_vars

\* the settings of a state, and the settings the store holds
Settings(s) ==
  << s.SET_ACTIVE_MS, s.SET_WELCOME_MS, s.SET_REJECT_MS, s.SET_MARQUEE_MS,
     s.SET_CODE_DELAY_MS, s.SET_SLEEP_MS, s.SET_DAY_FALLBACK_MS, s.UNLOCK_CODE,
     s.QUIET_EN, s.QUIET_START_H, s.QUIET_END_H, s.SET_TZ, s.allowUids >>
Stored(p) ==
  << p.active_ms, p.welcome_ms, p.reject_ms, p.marquee_ms, p.code_delay,
     p.sleep_ms, p.day_fallback_ms, p.code, p.quiet_en, p.q_start, p.q_end,
     p.tz, p.uids >>

-----------------------------------------------------------------------------
(* The serial commands *)

\* the verbs of the help text and of the README command table that the runs use
ListedVerbs == { "sleep_ms", "day_fallback_ms", "active_ms", "welcome_ms",
                 "reject_ms", "marquee_ms", "code_delay_ms", "unlock", "quiet",
                 "settz", "add", "clear", "show" }
Line(cmd) == SettingsDo(cmd, NoTag)

\* C23: the line `sleep_ms <ms>` sets the daytime sleep threshold and the
\* line `day_fallback_ms <ms>` sets the day fallback interval, as the help
\* text and the README command table say, and both are stored; a line whose
\* verb is not listed changes no setting and stores nothing.
C23_ListedVerbs ==
  [][\A cmd \in CmdsSettings : Line(cmd) =>
       /\ cmd.verb = "sleep_ms"
            => SET_SLEEP_MS' = Max(toInt(cmd.args[1]), 30000) /\ prefs'.sleep_ms = SET_SLEEP_MS'
       /\ cmd.verb = "day_fallback_ms"
            => SET_DAY_FALLBACK_MS' = toInt(cmd.args[1]) /\ prefs'.day_fallback_ms = SET_DAY_FALLBACK_MS'
       /\ cmd.verb \notin ListedVerbs
            => Settings(St') = Settings(St) /\ prefs' = prefs]_vars
\* as coded: the two lines are answered like a line that is not listed, and
\* every other listed setter stores what it was given or the nearest bound
C23_AsCoded ==
  [][\A cmd \in CmdsSettings : Line(cmd) =>
       /\ cmd.verb \in { "sleep_ms", "day_fallback_ms" } \/ cmd.verb \notin ListedVerbs
            => Settings(St') = Settings(St) /\ prefs' = prefs
       /\ cmd.verb = "active_ms" => SET_ACTIVE_MS' = Max(toInt(cmd.args[1]), 10000)
       /\ cmd.verb = "reject_ms" => SET_REJECT_MS' = Max(toInt(cmd.args[1]), 200)
       /\ cmd.verb = "marquee_ms" => SET_MARQUEE_MS' = constrain(toInt(cmd.args[1]), 10, 65535)
       /\ cmd.verb = "settz" => SET_TZ' = cmd.args[1]
       /\ cmd.verb = "unlock" /\ Len(cmd.args[1]) = 4 => UNLOCK_CODE' = cmd.args[1]]_vars
\* after the first line of a session the sleep threshold and the day
\* fallback are the compiled-in ones and nothing was ever stored (the line
\* `sleep_ms 30000` and the line `day_fallback_ms 12000` lead here)
C23_Witness ==
  /\ pc = "run" /\ lastOp = "loop" /\ nCmd = 1 /\ nScan = 0 /\ ~prefs.saved
  /\ SET_SLEEP_MS = 180000 /\ SET_DAY_FALLBACK_MS = 0

-----------------------------------------------------------------------------
(* Persistence of the settings *)

\* the settings setup() would load after a reset taken now
Reloaded(s) == Settings(loadAll(Reset(s, "UNDEFINED")))

\* C24: a line or an admin payload that changes a setting (timing
\* thresholds, unlock code, quiet window, timezone, allowlist) leaves the
\* store equal to the settings in memory when the loop() iteration ends, and
\* at every iteration boundary a reset followed by loadAll() gives back
\* exactly the settings in effect.
C24_Persisted ==
  [][pc' = "run" =>
       /\ (pc = "run" /\ Settings(St') # Settings(St))
            => (prefs'.saved /\ Stored(prefs') = Settings(St'))
       /\ Reloaded(St') = Settings(St')]_vars
\* three operations changed the unlock code, the quiet window and the
\* allowlist, and the store holds all of it
C24_Witness ==
  /\ pc = "run" /\ nCmd + nScan = MaxSettingOps /\ prefs.saved
  /\ UNLOCK_CODE = "9999" /\ QUIET_START_H = 25 /\ Len(allowUids) = 1
  /\ Stored(prefs) = Settings(St) /\ Reloaded(St) = Settings(St)

-----------------------------------------------------------------------------
(* The quiet window *)

HourOk(h) == 0 <= h /\ h <= 23

\* C25: after any sequence of operator lines and admin payloads both hours
\* of the quiet window are hours of the day: 0 <= start <= 23 and
\* 0 <= end <= 23.
C25_HoursInRange == HourOk(QUIET_START_H) /\ HourOk(QUIET_END_H)
\* as coded: a payload never leaves an hour out of range that was in range,
\* and neither does a line other than `quiet on <start> <end>`
C25_ExceptQuietLine ==
  [][\A cmd \in CmdsSettings \cup {NoCmd} :
       (\E tag \in TagsSettings \cup {NoTag} : SettingsDo(cmd, tag))
         /\ ~(cmd.verb = "quiet" /\ Len(cmd.args) = 3)
         /\ C25_HoursInRange
       => C25_HoursInRange']_vars
\* the line `quiet on 25 30` was taken as it is
C25_Witness ==
  /\ pc = "run" /\ QUIET_EN /\ QUIET_START_H = 25 /\ QUIET_END_H = 30
  /\ prefs.q_start = 25 /\ prefs.q_end = 30
\* the line `quiet on -1 7` stored the low byte of -1
C25_Wrapped == pc = "run" /\ QUIET_START_H = 255 /\ QUIET_END_H = 7

-----------------------------------------------------------------------------
(* Floors of the settings *)

\* the value a line or a payload item gives for a numeric setting
Given(text) == toInt(text)

\* C26: starting from the compiled-in settings, after any lines and admin
\* payloads active_ms >= 10000, welcome_ms >= 200, reject_ms >= 200,
\* 10 <= marquee_ms <= 65535, sleep_ms >= 30000 and the unlock code has
\* exactly 4 characters; a setter line given a value below the floor does
\* not store that value.
C26_Floors ==
  /\ SET_ACTIVE_MS >= 10000 /\ SET_WELCOME_MS >= 200 /\ SET_REJECT_MS >= 200
  /\ 10 <= SET_MARQUEE_MS /\ SET_MARQUEE_MS <= 65535
  /\ SET_SLEEP_MS >= 30000 /\ Len(UNLOCK_CODE) = 4
  /\ prefs.saved =>
       /\ prefs.active_ms >= 10000 /\ prefs.welcome_ms >= 200 /\ prefs.reject_ms >= 200
       /\ 10 <= prefs.marquee_ms /\ prefs.marquee_ms <= 65535
       /\ prefs.sleep_ms >= 30000 /\ Len(prefs.code) = 4
  /\ \A cmd \in CmdsSettings :
       LET y == handleSerial(St, cmd, NoNet) IN
       /\ cmd.verb = "active_ms" /\ Given(cmd.args[1]) < 10000 => y.SET_ACTIVE_MS = 10000
       /\ cmd.verb = "welcome_ms" /\ Given(cmd.args[1]) < 200 => y.SET_WELCOME_MS # Given(cmd.args[1])
       /\ cmd.verb = "reject_ms" /\ Given(cmd.args[1]) < 200 => y.SET_REJECT_MS = 200
       /\ cmd.verb = "marquee_ms" /\ Given(cmd.args[1]) < 10 => y.SET_MARQUEE_MS = 10
       /\ cmd.verb = "unlock" /\ Len(cmd.args[1]) # 4 => y.UNLOCK_CODE = UNLOCK_CODE
\* the lines `active_ms 0` and `marquee_ms 1` and a payload with
\* sleep_ms=1000 left each setting at its floor
C26_Witness ==
  /\ pc = "run" /\ nCmd = 2 /\ nScan = 1 /\ prefs.saved
  /\ SET_ACTIVE_MS = 10000 /\ SET_MARQUEE_MS = 10 /\ SET_SLEEP_MS = 30000
\* the line `welcome_ms -1` is read as an unsigned number: the largest one
C26_Wrapped == pc = "run" /\ SET_WELCOME_MS = U32(-1)

-----------------------------------------------------------------------------
(* The instant of the last scan *)

\* the state in which an iteration of loop() makes the daytime sleep test
AtDayTest == IF pc' = "asleep" THEN AtEntry ELSE St'

\* C27: setup() ends with lastScanMs at the current instant; an iteration
\* of loop() that reads a tag (recognized, unrecognized, malformed or
\* admin) sets lastScanMs to the instant of the read; an iteration that
\* reads none, whatever the line it handles and whatever timeout expires,
\* leaves it alone; and the iteration enters daytime sleep exactly when
\* quietNow() is false and the time since lastScanMs exceeds SET_SLEEP_MS.
C27_LastScan ==
  [][/\ (pc = "boot" /\ pc' = "run") => lastScanMs' = millis'
     /\ (pc = "run" /\ lastOp' = "loop" /\ scan'.present) => lastScanMs' = Begin.millis
     /\ (pc = "run" /\ lastOp' = "loop" /\ ~scan'.present) => lastScanMs' = lastScanMs
     /\ (pc = "run" /\ lastOp' = "loop" /\ sleepProc' # "night") =>
          (pc' = "asleep" /\ sleepProc' = "day")
            = (~quietNow(AtDayTest) /\ U32(AtDayTest.millis - lastScanMs') > SET_SLEEP_MS')]_vars
\* a malformed tag was read after a line had been handled: the last scan
\* is the read, not the boot
C27_Witness ==
  /\ pc = "run" /\ lastOp = "loop" /\ scan.present /\ Len(scan.uid) < 4
  /\ nCmd = 1 /\ lastScanMs = millis /\ lastScanMs > 4000
\* 30 s after an admin tag, and not 30 s after boot, the device sleeps
C27_SleepAfterAdmin ==
  /\ pc = "asleep" /\ sleepProc = "day" /\ nScan = 1 /\ lastScanMs > 0
  /\ lastUidHex = uidHexNoSep(UidB) /\ U32(millis - 40 - lastScanMs) > SET_SLEEP_MS

-----------------------------------------------------------------------------
(* Boot reconciliation of the clock *)

AfterSetup == pc = "run" /\ lastOp = "setup"

\* C28: boot reconciliation sets the clock from gPlannedWakeEpoch or from
\* gLastSyncEpoch only if neither sync attempt of that boot, the one made
\* when the quiet window is enabled and the forced one, succeeded.
C28_SyncNotOverwritten ==
  AfterSetup => ((boot.first = "ok" \/ boot.forced = "ok") => boot.rung = "none")
\* as coded: only the forced attempt counts; the planned wake instant is
\* applied after a timer wake whenever the forced attempt failed, and the
\* last-sync instant only when the clock is not valid by then
C28_ForcedOnly ==
  AfterSetup =>
    /\ boot.forced = "ok" => boot.rung = "none"
    /\ boot.rung = "last" => boot.first # "ok"
    /\ (boot.forced # "ok" /\ boot.cause = "TIMER" /\ boot.planned > 0)
         => (boot.rung = "planned" /\ rtc = boot.planned)
\* a timer wake whose first attempt succeeded and whose forced attempt
\* found no access point: the clock is the planned wake instant
C28_Witness ==
  /\ AfterSetup /\ wakeCause = "TIMER" /\ QUIET_EN
  /\ boot.first = "ok" /\ boot.forced = "connect" /\ boot.rung = "planned"
  /\ rtc = boot.planned /\ gLastSyncEpoch # rtc

-----------------------------------------------------------------------------
(* Runs over three boots with a day fallback timer stored: power-on in the
   last seconds of the quiet window, night sleep, daytime sleep, wakes by
   the timer and by a tag. *)

MaxBootsWake == 3
MaxUptimeWake == 32

\* FastPrefs with the day fallback timer set to 12 s
FallbackPrefs == [FastPrefs EXCEPT !.day_fallback_ms = 12000]

InitWake == InitOf({At(6, 59, 57)}, {FastPrefs, FallbackPrefs})
SetupWake ==
  /\ pc = "boot" /\ boots < MaxBootsWake
  /\ \E first \in NetOutcomes, forced \in NetOutcomes :
       Commit([setup(St, TRUE, first, forced) EXCEPT !.boots = @ + 1, !.lastOp = "setup"])
LoopIdleWake ==
  /\ pc = "run" /\ millis < MaxUptimeWake * 1000
  /\ Iterate(NoCmd, NoTag, NoNet)
NextWake == SetupWake \/ LoopIdleWake \/ WakeTimer \/ WakeExt0
SpecWake == InitWake /\ [][NextWake]_vars

\* setup() starts
BootStep == pc = "boot" /\ pc' = "run"

\* C29: when boot reconciliation sets the clock from gPlannedWakeEpoch, that
\* value is the instant at which the timer of the sleep just ended was
\* armed to fire, which is what the retained system clock reads at the wake
\* (to the second); a timer wake from daytime sleep with a day fallback
\* does not bring a value left by an earlier night sleep into use.
C29_PlannedIsCurrent ==
  [][(BootStep /\ boot'.rung = "planned") => (rtc - gPlannedWakeEpoch) \in 0..1]_vars
\* as coded: night sleep entered with valid time leaves the instant its
\* timer fires, daytime sleep leaves the value alone, and setup() applies
\* whatever is there after any timer wake whose forced sync failed
C29_AsCoded ==
  [][/\ (pc = "asleep" /\ sleepProc = "night" /\ pc' = "boot" /\ gPlannedWakeEpoch > 0)
          => (rtc' - gPlannedWakeEpoch') \in 0..1
     /\ LoopSuspends("day") => gPlannedWakeEpoch' = gPlannedWakeEpoch
     /\ (BootStep /\ wakeCause = "TIMER" /\ gPlannedWakeEpoch > 0 /\ boot'.forced # "ok")
          => (boot'.rung = "planned" /\ rtc' = gPlannedWakeEpoch)]_vars
\* third boot, after the day fallback timer fired: the clock was set to the
\* end of the night sleep before it, more than 30 s in the past
C29_Witness ==
  /\ AfterSetup /\ boots = 3 /\ wakeCause = "TIMER" /\ boot.rung = "planned"
  /\ rtc = gPlannedWakeEpoch /\ utc - rtc > 30 /\ timeValid

\* the device wakes
WakeStep == pc = "asleep" /\ pc' = "boot"
\* the hour of the day it really is
TrueHour == tm_hour([St EXCEPT !.rtc = utc])

\* C30: whatever the network does during the boot after a wake, a clock
\* that boot reconciliation sets is not earlier than the clock was at the
\* entry to the sleep just ended; so a wake by a tag from daytime sleep
\* with failed sync does not put the clock back to the last-sync instant.
C30_NeverEarlier ==
  [][WakeStep =>
       \A first \in NetOutcomes, forced \in NetOutcomes :
         LET b == setup(St', TRUE, first, forced) IN
         b.boot.rung # "none" => b.rtc >= rtc]_vars
\* as coded: after a wake by a tag with no access point, setup() sets the
\* clock to the instant of the last sync when there was one; after a timer
\* wake from night sleep the planned instant is not earlier than the entry
C30_AsCoded ==
  [][/\ (BootStep /\ wakeCause = "EXT0" /\ gLastSyncEpoch > 0
           /\ boot'.first # "ok" /\ boot'.forced # "ok")
          => (boot'.rung = "last" /\ rtc' = gLastSyncEpoch /\ timeValid')
     /\ (WakeStep /\ sleepProc = "night" /\ gPlannedWakeEpoch > 0)
          => gPlannedWakeEpoch' >= rtc]_vars
\* woken by a tag an hour into the day, no access point: the clock was put
\* back to the sync before dawn and loop() entered night-timer sleep
C30_Witness ==
  /\ pc = "asleep" /\ sleepProc = "night" /\ sleepBy = "loop" /\ boots = 3
  /\ wakeCause = "EXT0" /\ TrueHour = 8 /\ tm_hour(St) = 6 /\ utc - rtc > 3600

-----------------------------------------------------------------------------
(* The instant of the last sync *)

\* no time server answers during the attempt
NoAnswer == { net \in NetOutcomes : ~net.ntp }

\* C31: a sync attempt in which no time authority answers does not report
\* success and does not write gLastSyncEpoch, whatever the clock holds when
\* it is made (a time set by hand, one reconstructed by setup(), none).
C31_OnlyFromAuthority ==
  pc = "run" =>
    \A force \in BOOLEAN, net \in NoAnswer :
      LET y == SyncNow(force, net) IN
      ~y.ret /\ y.gLastSyncEpoch = gLastSyncEpoch
\* as coded: with the access point and the resolver there, the attempt
\* succeeds without an answer exactly when the system time already reads as
\* 2017 or later, and then gLastSyncEpoch becomes that system time; when a
\* server answers it becomes the true time
C31_AsCoded ==
  pc = "run" =>
    /\ \A force \in BOOLEAN, net \in NoAnswer :
         LET y == SyncNow(force, net) IN
         /\ y.ret = ((force \/ QUIET_EN) /\ net.wifi /\ net.dns /\ getLocalTime(St))
         /\ y.gLastSyncEpoch = IF y.ret THEN rtc ELSE gLastSyncEpoch
    /\ \A net \in NetOutcomes \ NoAnswer :
         LET y == SyncNow(TRUE, net) IN
         (~getLocalTime(St) /\ y.ret) => y.gLastSyncEpoch = utc
\* `ntp` in a boot whose clock setup() had reconstructed: the attempt ended
\* ok and gLastSyncEpoch is that clock, more than a minute off the true time
C31_Witness ==
  /\ pc = "run" /\ lastOp = "loop" /\ nCmd >= 1 /\ lastSync = "ok" /\ ret /\ timeValid
  /\ boots = 2 /\ gLastSyncEpoch = rtc /\ utc - rtc > 60

-----------------------------------------------------------------------------
(* Tags that are not on the allowlist *)

\* the tag read in this step has a UID that no entry of a non-empty
\* allowlist equals
StrangerScan ==
  /\ NoLineStep /\ scan'.present
  /\ Len(allowUids) > 0 /\ ~IsEntry(allowUids, NormalizedUid(scan'.uid))
\* the allowlist and the unlock code, in memory and in the store
Secrets(s) == << s.allowUids, s.UNLOCK_CODE, s.prefs.uids, s.prefs.code >>

\* C32 (as stated): with a non-empty allowlist, a scan of a tag whose UID
\* is not on it changes neither the allowlist nor the unlock code and is
\* not recognized, and an iteration without tag or line changes neither and
\* shows the code only after a recognized scan; so no sequence of such
\* scans leads to the code.
C32_Strangers ==
  [][/\ StrangerScan =>
          /\ Secrets(St') = Secrets(St)
          /\ ~recognizedLast' /\ mode' # "MODE_CODE"
     /\ (NoLineStep /\ ~scan'.present) =>
          /\ Secrets(St') = Secrets(St) /\ recognizedLast' = recognizedLast
          /\ mode' = "MODE_CODE" => recognizedLast]_vars
\* C32 (amended): the same for tags that carry no text record with a '=';
\* a tag that carries one is applied as configuration whatever its UID, and
\* is the only scan that changes the allowlist or the unlock code.
C32_PlainStrangers ==
  [][/\ (StrangerScan /\ PlainScan) =>
          /\ Secrets(St') = Secrets(St)
          /\ ~recognizedLast' /\ mode' \notin {"MODE_WELCOME", "MODE_CODE"}
     /\ (NoLineStep /\ ~scan'.present) =>
          /\ Secrets(St') = Secrets(St) /\ recognizedLast' = recognizedLast
          /\ mode' = "MODE_CODE" => recognizedLast
     /\ (NoLineStep /\ Secrets(St') # Secrets(St)) => AdminScan]_vars
\* 04DDEEFF11 without text was read against the list of 04AABBCC: rejected,
\* list and code as stored
C32_Witness ==
  /\ pc = "run" /\ scan.present /\ scan.uid = UidB /\ ~HasEq(scan.text)
  /\ allowUids = << HexA >> /\ UNLOCK_CODE = "3510"
  /\ mode = "MODE_POOP" /\ ~recognizedLast
\* the same UID with the text code=9999: the unlock code is 9999
C32_Reconfigured ==
  /\ pc = "run" /\ scan.present /\ scan.uid = UidB /\ HasEq(scan.text)
  /\ allowUids = << HexA >> /\ UNLOCK_CODE = "9999" /\ prefs.code = "9999"

-----------------------------------------------------------------------------
(* Welcome and code only after a recognized scan *)

TagsSeen == { NoTag, TagA, TagB, TagShort, TagAdminQuiet }
\* the state in which an iteration of loop() started now, reading this tag,
\* arrives at the mode timeout test (1142)
AtModeTimeout(tag) == idleBlank(showCode(pollTag(Begin, tag)))

\* C33: in every reachable state mode in {Welcome, CodeReveal} implies
\* recognizedLast; and no iteration of loop() arrives at the mode timeout
\* test in Welcome with recognizedLast false, so that branch of the test is
\* never the one taken.
C33_WelcomeIsRecognized ==
  /\ mode \in {"MODE_WELCOME", "MODE_CODE"} => recognizedLast
  /\ pc = "run" =>
       \A tag \in TagsSeen :
         LET m == AtModeTimeout(tag) IN
         m.mode \in {"MODE_WELCOME", "MODE_CODE"} => m.recognizedLast
\* the code is on the display after 04AABBCC, which is on the list, was
\* read, and an admin tag since has not changed that
C33_Witness ==
  /\ pc = "run" /\ mode = "MODE_CODE" /\ recognizedLast /\ lastWasRecognized
  /\ nScan = 2 /\ lastUidHex = uidHexNoSep(UidB) /\ lastGrantedHex = HexA
  /\ Len(allowUids) > 0
\* an unrecognized scan replaced the welcome
C33_Replaced ==
  /\ pc = "run" /\ mode = "MODE_POOP" /\ ~recognizedLast /\ nScan = 2
  /\ lastGrantedHex = HexA /\ scan.present /\ scan.uid = UidB

-----------------------------------------------------------------------------
(* The blanked display *)

\* C34: at every loop() iteration boundary, mode = MODE_SLEEP implies that
\* the display is off; an admin tag read, or a settime, setepoch or settz
\* line handled, while blanked does not leave the display on with the mode
\* still MODE_SLEEP.
C34_BlankedIsOff ==
  (pc = "run" /\ mode = "MODE_SLEEP") => (~displayAwake /\ oled = "OFF")
\* as coded: the display comes on under MODE_SLEEP in an iteration that
\* reads an admin tag or handles a line, and then stays on through the
\* iterations that read no tag
C34_AsCoded ==
  [][/\ (pc = "run" /\ lastOp' = "loop" /\ pc' = "run"
           /\ mode' = "MODE_SLEEP" /\ displayAwake' /\ ~displayAwake)
          => (AdminScan \/ nCmd' # nCmd)
     /\ (NoLineStep /\ ~scan'.present /\ pc' = "run"
           /\ mode = "MODE_SLEEP" /\ displayAwake)
          => (mode' = "MODE_SLEEP" /\ displayAwake' /\ oled' = "ON")]_vars
\* two iterations after a line was handled on the blanked device the
\* display is still on and the mode still MODE_SLEEP; no tag was ever read
C34_Witness ==
  /\ pc = "run" /\ lastOp = "loop" /\ mode = "MODE_SLEEP" /\ displayAwake /\ oled = "ON"
  /\ nCmd = 1 /\ nScan = 0 /\ U32(millis - lastScanMs) > SET_ACTIVE_MS + 3000
\* the same after an admin tag
C34_AfterAdminTag ==
  /\ pc = "run" /\ lastOp = "loop" /\ mode = "MODE_SLEEP" /\ displayAwake /\ oled = "ON"
  /\ nCmd = 0 /\ nScan = 1 /\ ~scan.present /\ lastUidHex = uidHexNoSep(UidB)

-----------------------------------------------------------------------------
(* The two branches of night-timer sleep *)

NightEntry == pc = "run" /\ pc' = "asleep" /\ sleepProc' = "night"

\* C35: every night-timer sleep entered by loop() itself has a valid clock,
\* arms the timer for the time until QUIET_END_H (one minute at least) and
\* stores that instant, which is not zero, as gPlannedWakeEpoch; the branch
\* for an invalid clock (30 minutes, gPlannedWakeEpoch = 0) is taken only
\* in a sleep entered by the line sleepnow.
C35_NapOnlyBySleepnow ==
  [][NightEntry =>
       /\ sleepBy' = "loop" =>
            /\ timeValid' /\ getLocalTime(AtEntry)
            /\ wakeTimer' = Max(microsUntilHour(AtEntry, QUIET_END_H'), ONE_MIN)
            /\ gPlannedWakeEpoch' = AtEntry.rtc + wakeTimer' \div 1000
            /\ gPlannedWakeEpoch' > 0
       /\ (~timeValid' \/ gPlannedWakeEpoch' = 0) =>
            /\ sleepBy' = "sleepnow" /\ ~timeValid' /\ gPlannedWakeEpoch' = 0
            /\ wakeTimer' = THIRTY_MIN /\ lastSync' \notin {"none", "ok"}]_vars
\* loop() suspended for the night at 22:00 with the timer set for 07:00
C35_Witness ==
  /\ Suspended("night") /\ sleepBy = "loop" /\ timeValid /\ nCmd = 0
  /\ wakeTimer = 9 * 3600 * 1000 /\ gPlannedWakeEpoch = rtc + 9 * 3600
\* sleepnow without a clock and without a network: the 30 minute nap
C35_Nap ==
  /\ Suspended("night") /\ sleepBy = "sleepnow" /\ ~timeValid
  /\ wakeTimer = THIRTY_MIN /\ gPlannedWakeEpoch = 0

====
